---- MODULE Spec2Model ----
(***************************************************************************)
(* Battle State Encoder and Action Legality Resolver of the Pokemon        *)
(* Showdown RL bot.                                                        *)
(*                                                                         *)
(* Part 1: the action mask (src/src/bot/action_space.py) and the paired    *)
(* index -> order translator (src/src/bot/player.py).                      *)
(***************************************************************************)
EXTENDS Integers, Sequences, FiniteSets, TLC

VARIABLES
    battle,     \* the battle snapshot handed to the mask and the translator
    mask,       \* result of get_action_mask(battle), a function 0..25 -> BOOLEAN
    orders,     \* orders[i] = ShowdownEnv.action_to_order(i, battle)
    pc,         \* "observed" -> "masked" -> "translated"
    snapshot,   \* the battle snapshot handed to the encoder
    obs,        \* result of encode_battle(snapshot), a sequence of fractions
    epc,        \* "observed" -> "encoded"
    args,       \* the arguments handed to one of the estimator's functions
    result,     \* what that function returned
    fpc,        \* "called" -> "returned"
    calls,      \* the calls made so far on one battle, with their results
    game,       \* the battle the environment is playing, as calc_reward sees it
    tracker,    \* the RewardTracker of the environment
    logger,     \* the BattleLogger
    learner     \* the self-play run: model, opponent and update callback

\* the variables of the training loop
training == <<game, tracker, logger, learner>>

vars == <<battle, mask, orders, pc, snapshot, obs, epc, args, result, fpc, calls, training>>

---------------------------------------------------------------------------
(* Sizes *)

\* ACTION_SPACE_SIZE = 26
ACTION_SPACE_SIZE == 26

\* the first six roster positions are the switch actions (if i >= 6: break)
SWITCH_SLOTS == 6

\* move slots per Pokemon addressed by the action space (if i >= 4: break)
MOVE_SLOTS == 4

\* index that get_action_mask marks on a forced turn
DEFAULT_SLOT == 6

\* largest roster of the roster-rich snapshots
MaxRoster == 6

\* largest roster of the move-rich snapshots
MaxTeam == 2

\* largest number of known moves of the active Pokemon
MaxMoves == 5

\* largest number of known moves in the roster-rich snapshots
MaxRosterMoves == 1

\* largest number of calls made on one battle
MaxCalls == 3

Actions == 0 .. (ACTION_SPACE_SIZE - 1)

MonNames == <<"pikachu", "charizard", "blastoise", "venusaur",
              "snorlax", "gengar", "mew", "eevee">>

MoveNames == <<"tackle", "ember", "surf", "thunderbolt",
               "protect", "toxic", "rest", "bite">>

ForcedMoveIds == {"struggle", "recharge"}

Range(s) == {s[i] : i \in DOMAIN s}

Max(S) == CHOOSE x \in S : \A y \in S : y <= x

\* the elements of a set of positions, largest first
RECURSIVE Descending(_)
Descending(S) ==
    IF S = {} THEN <<>> ELSE <<Max(S)>> \o Descending(S \ {Max(S)})

\* the names at the given positions, in the order of the positions
NamesAt(names, positions) == [k \in DOMAIN positions |-> names[positions[k]]]

---------------------------------------------------------------------------
(* Orders *)

DefaultOrder == [kind |-> "default", target |-> "", mech |-> "none"]

\* the translator found no roster member or move slot for the index
NoOrder == [kind |-> "none", target |-> "", mech |-> "none"]

SwitchOrder(mon) == [kind |-> "switch", target |-> mon, mech |-> "none"]

MoveOrder(move, mechanic) == [kind |-> "move", target |-> move, mech |-> mechanic]

\* battle.valid_orders: the orders the server accepts this turn
ValidOrders(b) ==
    IF b.wait THEN {DefaultOrder}
    ELSE LET av == Range(b.available_moves) IN
         {SwitchOrder(p) : p \in Range(b.available_switches)}
         \cup {MoveOrder(m, "none") : m \in av}
         \cup (IF b.can_mega_evolve THEN {MoveOrder(m, "mega") : m \in av} ELSE {})
         \cup (IF b.can_z_move
               THEN {MoveOrder(m, "zmove") : m \in av \cap Range(b.available_z_moves)}
               ELSE {})
         \cup (IF b.can_dynamax THEN {MoveOrder(m, "dynamax") : m \in av} ELSE {})
         \cup (IF b.can_tera THEN {MoveOrder(m, "terastallize") : m \in av} ELSE {})

\* len(valid) == 0 or (len(valid) == 1 and str(valid[0]) == '/choose default')
ForcedTurn(b) ==
    \/ ValidOrders(b) = {}
    \/ ValidOrders(b) = {DefaultOrder}

\* the order is accepted on this turn
Legal(o, b) ==
    \/ o \in ValidOrders(b)
    \/ o = DefaultOrder /\ ForcedTurn(b)

---------------------------------------------------------------------------
(* get_action_mask *)

\* list(active.moves.values()) of battle.active_pokemon
ActiveMoves(b) == b.moves

ForcedMask == [i \in Actions |-> i = DEFAULT_SLOT]

\* a switch rule that indexes by the position inside available_switches
SwitchIndicesRelative(b) ==
    {k - 1 : k \in {j \in DOMAIN b.available_switches : j <= SWITCH_SLOTS}}

\* switch actions 0-5: absolute position i of the roster, if that member is
\* one of battle.available_switches
SwitchIndices(b) ==
    {i \in 0 .. (SWITCH_SLOTS - 1) :
        /\ i + 1 <= Len(b.team)
        /\ b.team[i + 1] \in Range(b.available_switches)}

\* the struggle / recharge special case
SingleForcedMove(b) ==
    /\ Len(b.available_moves) = 1
    /\ b.available_moves[1] \in ForcedMoveIds

\* indices marked for own move slot s (0-based), whose move is m
SlotIndices(b, s, m) ==
    IF m \in Range(b.available_moves)
    THEN {6 + s}
         \cup (IF b.can_mega_evolve THEN {10 + s} ELSE {})
         \cup (IF b.can_z_move /\ m \in Range(b.available_z_moves)
               THEN {14 + s} ELSE {})
         \cup (IF b.can_dynamax THEN {18 + s} ELSE {})
         \cup (IF b.can_tera THEN {22 + s} ELSE {})
    ELSE {}

\* a move rule that marks the special mechanics without the base move check
MoveIndicesUngated(b) ==
    IF SingleForcedMove(b) THEN {6}
    ELSE IF b.active # 0
    THEN UNION {SlotIndices(b, s, ActiveMoves(b)[s + 1]) \cup
                    (IF b.can_mega_evolve THEN {10 + s} ELSE {}) :
                s \in {t \in 0 .. (MOVE_SLOTS - 1) : t + 1 <= Len(ActiveMoves(b))}}
    ELSE {}

\* a move rule that never marks the last move slot
MoveIndicesShort(b) ==
    IF SingleForcedMove(b) THEN {6}
    ELSE IF b.active # 0
    THEN UNION {SlotIndices(b, s, ActiveMoves(b)[s + 1]) :
                s \in {t \in 0 .. (MOVE_SLOTS - 2) : t + 1 <= Len(ActiveMoves(b))}}
    ELSE {}

\* a move rule that adds the mega evolution to the single forced move
MoveIndicesForcedMega(b) ==
    IF SingleForcedMove(b)
    THEN {6} \cup (IF b.can_mega_evolve THEN {10} ELSE {})
    ELSE IF b.active # 0
    THEN UNION {SlotIndices(b, s, ActiveMoves(b)[s + 1]) :
                s \in {t \in 0 .. (MOVE_SLOTS - 1) : t + 1 <= Len(ActiveMoves(b))}}
    ELSE {}

\* move actions 6-25: own move slot i of the active Pokemon, if that move is
\* in battle.available_moves, plus the special mechanics the turn allows
MoveIndices(b) ==
    IF SingleForcedMove(b) THEN {6}
    ELSE IF b.active # 0
    THEN UNION {SlotIndices(b, s, ActiveMoves(b)[s + 1]) :
                s \in {t \in 0 .. (MOVE_SLOTS - 1) : t + 1 <= Len(ActiveMoves(b))}}
    ELSE {}

\* a resolver that returns the empty mask when nothing was marked
FallbackNone(marked) == [i \in Actions |-> i \in marked]

\* a resolver that marks every action when nothing was marked
FallbackAll(marked) ==
    IF marked = {} THEN [i \in Actions |-> TRUE]
    ELSE [i \in Actions |-> i \in marked]

\* if not mask.any(): mask[6] = True
Fallback(marked) ==
    IF marked = {} THEN [i \in Actions |-> i = 6]
    ELSE [i \in Actions |-> i \in marked]

\* a forced-turn branch that also marks the first switch slot
ForcedBranchTwo(b) == [i \in Actions |-> i \in {0, DEFAULT_SLOT}]

\* mask[6] = True; return mask
ForcedBranch(b) == ForcedMask

get_action_mask(b) ==
    IF ForcedTurn(b) THEN ForcedBranch(b)
    ELSE Fallback(SwitchIndices(b) \cup MoveIndices(b))

---------------------------------------------------------------------------
(* ShowdownEnv.action_to_order *)

Mechanic(i) ==
    IF i < 10 THEN "none"
    ELSE IF i < 14 THEN "mega"
    ELSE IF i < 18 THEN "zmove"
    ELSE IF i < 22 THEN "dynamax"
    ELSE "terastallize"

\* the mapping of SinglesEnv.action_to_order for a non-forced turn
IndexToOrder(i, b) ==
    IF i < 6
    THEN IF i + 1 <= Len(b.team) THEN SwitchOrder(b.team[i + 1]) ELSE NoOrder
    ELSE LET s == (i - 6) % 4 IN
         IF b.active # 0 /\ s + 1 <= Len(ActiveMoves(b))
         THEN MoveOrder(ActiveMoves(b)[s + 1], Mechanic(i))
         ELSE NoOrder

action_to_order(i, b) ==
    IF ForcedTurn(b) THEN DefaultOrder ELSE IndexToOrder(i, b)

---------------------------------------------------------------------------
(* Battle snapshots *)

NoMask == [i \in Actions |-> FALSE]

NoOrders == [i \in Actions |-> NoOrder]

Flags == [mega : BOOLEAN, z : BOOLEAN, dynamax : BOOLEAN, tera : BOOLEAN]

NoFlags == [mega |-> FALSE, z |-> FALSE, dynamax |-> FALSE, tera |-> FALSE]

\* roster configurations: size, active position (0 = none), positions of the
\* members that can be switched in (never the active one)
Rosters(maxSize) ==
    {[n |-> n, active |-> a, avail |-> S] :
        n \in 0 .. maxSize, a \in 0 .. maxSize, S \in SUBSET (1 .. maxSize)}

RosterOk(r) == r.active <= r.n /\ r.avail \subseteq ((1 .. r.n) \ {r.active})

\* move configurations of the active Pokemon: number of known moves, and the
\* available moves (a subset of the own moves, or the single forced move)
MoveConfigs(maxMoves) ==
    {[k |-> k, avail |-> NamesAt(MoveNames, Descending(S))] :
        k \in 0 .. maxMoves, S \in SUBSET (1 .. maxMoves)}
    \cup {[k |-> k, avail |-> <<f>>] : k \in 0 .. maxMoves, f \in ForcedMoveIds}

Snapshot(r, mc, f, w) ==
    [team |-> [p \in 1 .. r.n |-> MonNames[p]],
     active |-> r.active,
     available_switches |-> NamesAt(MonNames, Descending(r.avail)),
     moves |-> [j \in 1 .. mc.k |-> MoveNames[j]],
     available_moves |-> mc.avail,
     can_mega_evolve |-> f.mega,
     can_z_move |-> f.z,
     can_dynamax |-> f.dynamax,
     can_tera |-> f.tera,
     available_z_moves |-> NamesAt(MoveNames, Descending({j \in 1 .. mc.k : j % 2 = 1})),
     wait |-> w]

\* every roster up to MaxRoster, with few moves and no special mechanic
RosterRich ==
    {Snapshot(r, mc, NoFlags, w) :
        r \in {x \in Rosters(MaxRoster) : RosterOk(x)},
        mc \in MoveConfigs(MaxRosterMoves),
        w \in BOOLEAN}

\* every move configuration and capability flag, with a small roster
MoveRich ==
    {Snapshot(r, mc, f, w) :
        r \in {x \in Rosters(MaxTeam) : RosterOk(x)},
        mc \in MoveConfigs(MaxMoves),
        f \in Flags,
        w \in BOOLEAN}

SnapshotOk(b) ==
    /\ \A m \in Range(b.available_moves) :
          m \in ForcedMoveIds \/ m \in Range(b.moves)
    /\ b.active = 0 => (b.moves = <<>> /\ b.available_moves = <<>>)

Snapshots == {b \in RosterRich \cup MoveRich : SnapshotOk(b)}

---------------------------------------------------------------------------
(***************************************************************************)
(* Part 2: the feature encoder (src/src/state/encoder.py).                 *)
(* Floats are modelled as exact fractions <<numerator, denominator>> in    *)
(* lowest terms with a positive denominator.                               *)
(***************************************************************************)

Abs(x) == IF x < 0 THEN -x ELSE x

RECURSIVE Gcd(_, _)
Gcd(a, b) == IF b = 0 THEN a ELSE Gcd(b, a % b)

\* the fraction n / d (d # 0) in lowest terms
Frac(n, d) ==
    LET g == Gcd(Abs(n), Abs(d))
        sgn == IF d < 0 THEN -1 ELSE 1
    IN  <<sgn * (n \div g), sgn * (d \div g)>>

Zero == <<0, 1>>

One == <<1, 1>>

Int2F(n) == <<n, 1>>

\* products and sums are reduced before they are multiplied out, so that the
\* intermediate integers stay small
FMul(x, y) ==
    LET g1 == Gcd(Abs(x[1]), y[2])
        g2 == Gcd(Abs(y[1]), x[2])
    IN  <<(x[1] \div g1) * (y[1] \div g2), (x[2] \div g2) * (y[2] \div g1)>>

FInv(y) == IF y[1] < 0 THEN <<-y[2], -y[1]>> ELSE <<y[2], y[1]>>

FDiv(x, y) == FMul(x, FInv(y))

FAdd(x, y) ==
    LET g == Gcd(x[2], y[2])
    IN  Frac(x[1] * (y[2] \div g) + y[1] * (x[2] \div g), (x[2] \div g) * y[2])

FSub(x, y) == FAdd(x, <<-y[1], y[2]>>)

FLess(x, y) ==
    LET g == Gcd(x[2], y[2])
    IN  x[1] * (y[2] \div g) < y[1] * (x[2] \div g)

FLeq(x, y) == ~FLess(y, x)

FMin(x, y) == IF FLess(y, x) THEN y ELSE x

FMax(x, y) == IF FLess(x, y) THEN y ELSE x

\* math.floor of a fraction, as an integer
FFloor(x) == x[1] \div x[2]

\* float(b) of a bool
Bool2F(b) == IF b THEN One ELSE Zero

\* np.zeros(n)
Zeros(n) == [i \in 1 .. n |-> Zero]

\* np.zeros(n) with vec[idx] = 1.0 (idx 0-based)
OneHot(n, idx) == [i \in 1 .. n |-> IF i = idx + 1 THEN One ELSE Zero]

\* np.concatenate of a sequence of vectors
RECURSIVE Concat(_)
Concat(parts) ==
    IF parts = <<>> THEN <<>> ELSE Head(parts) \o Concat(Tail(parts))

\* 0-based position of x in the list s (list.index), x in s
IndexOf(s, x) == (CHOOSE k \in DOMAIN s : s[k] = x) - 1

\* the absent value (None) of a type, status, ability or item
None == "none"

TYPES == <<"normal", "fire", "water", "electric", "grass", "ice", "fighting",
           "poison", "ground", "flying", "psychic", "bug", "rock", "ghost",
           "dragon", "dark", "steel", "fairy">>

WEATHERS == <<"sunnyday", "raindance", "sandstorm", "hail", "snow",
              "desolateland", "primordialsea", "deltastream">>

FIELDS == <<"electric_terrain", "grassy_terrain", "misty_terrain", "psychic_terrain">>

STATUSES == <<"brn", "frz", "par", "psn", "tox", "slp">>

BOOST_STATS == <<"atk", "def", "spa", "spd", "spe", "accuracy", "evasion">>

\* N_MOVES = 4
N_MOVES == 4

EFFECTIVENESS_BUCKETS == <<Zero, <<1, 4>>, <<1, 2>>, One, <<2, 1>>, <<4, 1>>>>

\* se(atk, *defs): the defenders an attack type hits for 2.0
SuperEffective(atk) ==
    CASE atk = "normal" -> {}
      [] atk = "fire" -> {"grass", "ice", "bug", "steel"}
      [] atk = "water" -> {"fire", "ground", "rock"}
      [] atk = "electric" -> {"water", "flying"}
      [] atk = "grass" -> {"water", "ground", "rock"}
      [] atk = "ice" -> {"grass", "ground", "flying", "dragon"}
      [] atk = "fighting" -> {"normal", "ice", "rock", "dark", "steel"}
      [] atk = "poison" -> {"grass", "fairy"}
      [] atk = "ground" -> {"fire", "electric", "poison", "rock", "steel"}
      [] atk = "flying" -> {"grass", "fighting", "bug"}
      [] atk = "psychic" -> {"fighting", "poison"}
      [] atk = "bug" -> {"grass", "psychic", "dark"}
      [] atk = "rock" -> {"fire", "ice", "flying", "bug"}
      [] atk = "ghost" -> {"psychic", "ghost"}
      [] atk = "dragon" -> {"dragon"}
      [] atk = "dark" -> {"psychic", "ghost"}
      [] atk = "steel" -> {"ice", "rock", "fairy"}
      [] atk = "fairy" -> {"fighting", "dragon", "dark"}

\* nve(atk, *defs): the defenders an attack type hits for 0.5
NotVeryEffective(atk) ==
    CASE atk = "normal" -> {"rock", "steel"}
      [] atk = "fire" -> {"fire", "water", "rock", "dragon"}
      [] atk = "water" -> {"water", "grass", "dragon"}
      [] atk = "electric" -> {"electric", "grass", "dragon"}
      [] atk = "grass" -> {"fire", "grass", "poison", "flying", "bug", "dragon", "steel"}
      [] atk = "ice" -> {"fire", "water", "ice", "steel"}
      [] atk = "fighting" -> {"poison", "flying", "psychic", "bug", "fairy"}
      [] atk = "poison" -> {"poison", "ground", "rock", "ghost"}
      [] atk = "ground" -> {"grass", "bug"}
      [] atk = "flying" -> {"electric", "rock", "steel"}
      [] atk = "psychic" -> {"psychic", "steel"}
      [] atk = "bug" -> {"fire", "fighting", "flying", "ghost", "steel", "fairy"}
      [] atk = "rock" -> {"fighting", "ground", "steel"}
      [] atk = "ghost" -> {"dark"}
      [] atk = "dragon" -> {"steel"}
      [] atk = "dark" -> {"fighting", "dark", "fairy"}
      [] atk = "steel" -> {"fire", "water", "electric", "steel"}
      [] atk = "fairy" -> {"fire", "poison", "steel"}

\* imm(atk, *defs): the defenders an attack type cannot hit
Immune(atk) ==
    CASE atk = "normal" -> {"ghost"}
      [] atk = "electric" -> {"ground"}
      [] atk = "fighting" -> {"ghost"}
      [] atk = "poison" -> {"steel"}
      [] atk = "ground" -> {"flying"}
      [] atk = "psychic" -> {"dark"}
      [] atk = "ghost" -> {"normal"}
      [] atk = "dragon" -> {"fairy"}
      [] OTHER -> {}

\* TYPE_CHART[atk][def]
TYPE_CHART(atk, def) ==
    IF def \in Immune(atk) THEN Zero
    ELSE IF def \in NotVeryEffective(atk) THEN <<1, 2>>
    ELSE IF def \in SuperEffective(atk) THEN <<2, 1>>
    ELSE One

\* the product of the chart entries of the given defender types from
\* position k on; absent (None) types are skipped
RECURSIVE EffectivenessFrom(_, _, _)
EffectivenessFrom(move_type, types, k) ==
    IF k > Len(types) THEN One
    ELSE LET rest == EffectivenessFrom(move_type, types, k + 1) IN
         IF types[k] # None /\ move_type \in Range(TYPES) /\ types[k] \in Range(TYPES)
         THEN FMul(TYPE_CHART(move_type, types[k]), rest)
         ELSE rest

\* a lookup that stops after the first type of the defender
EffectivenessOfFirstType(move_type, defender) ==
    EffectivenessFrom(move_type, <<defender.types[1]>>, 1)

\* a lookup that never returns 0.0: an immunity counts as neutral
EffectivenessWithoutImmunity(move_type, defender) ==
    LET eff == EffectivenessFrom(move_type, defender.types, 1) IN
    IF eff = Zero THEN One ELSE eff

_type_effectiveness(move_type, defender) ==
    EffectivenessFrom(move_type, defender.types, 1)

\* one formula for every stage: (2 + boost) / 2
BoostLinear(boost) == Frac(2 + boost, 2)

_boost_multiplier(boost) ==
    IF boost >= 0 THEN Frac(2 + boost, 2) ELSE Frac(2, 2 - boost)

\* floor((2 * base + 31 + 21) * 100 / 100) + 5, or + 110 for HP
_stat_at_100(base, is_hp) ==
    LET base_val == ((2 * base + 31 + 21) * 100) \div 100
    IN  Int2F(base_val + (IF is_hp THEN 110 ELSE 5))

---------------------------------------------------------------------------
(* Codificadores de pokemon: the per-entity blocks *)

\* dict.get(key, default) of a dict modelled as a function
Get(dict, key, default) == IF key \in DOMAIN dict THEN dict[key] ELSE default

\* an absent Pokemon (None) and an absent move (None)
NoPokemon == [name |-> None]

NoMove == [id |-> None]

_encode_types(pokemon) ==
    [i \in 1 .. Len(TYPES) |->
        IF \E k \in DOMAIN pokemon.types :
              pokemon.types[k] # None /\ pokemon.types[k] = TYPES[i]
        THEN One ELSE Zero]

_encode_status(pokemon) ==
    IF pokemon.status = None THEN OneHot(Len(STATUSES) + 1, Len(STATUSES))
    ELSE IF pokemon.status \in Range(STATUSES)
    THEN OneHot(Len(STATUSES) + 1, IndexOf(STATUSES, pokemon.status))
    ELSE Zeros(Len(STATUSES) + 1)

_encode_boosts(pokemon) ==
    [i \in 1 .. Len(BOOST_STATS) |-> Frac(Get(pokemon.boosts, BOOST_STATS[i], 0), 6)]

\* cat_map.get(move.category.name.lower(), 2)
CategoryIndex(category) ==
    IF category = "physical" THEN 0
    ELSE IF category = "special" THEN 1
    ELSE 2

\* 1.0 if acc is True else (acc / 100.0 if acc else 0.0)
AccuracyEntry(acc) ==
    IF acc.always THEN One
    ELSE IF acc.value # Zero THEN FDiv(acc.value, Int2F(100))
    ELSE Zero

\* tipo(18) + categoria(3) + potencia(1) + precision(1) + PP(1) + STAB(1) = 25
_encode_move(move, pokemon) ==
    IF move.id = None THEN Zeros(25)
    ELSE [i \in 1 .. 25 |->
            IF i <= 18
            THEN (IF move.type \in Range(TYPES) /\ i = IndexOf(TYPES, move.type) + 1
                  THEN One ELSE Zero)
            ELSE IF i <= 21
            THEN (IF i = 18 + CategoryIndex(move.category) + 1 THEN One ELSE Zero)
            ELSE IF i = 22 THEN FMin(Frac(move.base_power, 250), One)
            ELSE IF i = 23 THEN AccuracyEntry(move.accuracy)
            ELSE IF i = 24
            THEN (IF move.max_pp # 0 THEN Frac(move.current_pp, move.max_pp) ELSE One)
            ELSE (IF move.type \in Range(pokemon.types) THEN One ELSE Zero)]

\* moves[i] if i < len(moves) else None   (i 0-based)
MoveAt(moves, i) == IF i < Len(moves) THEN moves[i + 1] ELSE NoMove

\* the five base-stat entries of the own active Pokemon
StatEntries(pokemon) ==
    <<Frac(Get(pokemon.base_stats, "atk", 0), 255),
      Frac(Get(pokemon.base_stats, "def", 0), 255),
      Frac(Get(pokemon.base_stats, "spa", 0), 255),
      Frac(Get(pokemon.base_stats, "spd", 0), 255),
      Frac(Get(pokemon.base_stats, "spe", 0), 255)>>

\* an active-Pokemon encoder that fills in stats and moves for both sides
EncodeActiveRevealing(pokemon, is_own) ==
    <<pokemon.current_hp_fraction>>
    \o _encode_types(pokemon)
    \o _encode_status(pokemon)
    \o _encode_boosts(pokemon)
    \o StatEntries(pokemon)
    \o Concat([i \in 1 .. N_MOVES |-> _encode_move(MoveAt(pokemon.moves, i - 1), pokemon)])

\* HP(1) + tipos(18) + estado(7) + boosts(7) + stats(5) + moves(100) = 138
_encode_active_pokemon(pokemon, is_own) ==
    <<pokemon.current_hp_fraction>>
    \o _encode_types(pokemon)
    \o _encode_status(pokemon)
    \o _encode_boosts(pokemon)
    \o (IF is_own
        THEN StatEntries(pokemon)
             \o Concat([i \in 1 .. N_MOVES |->
                           _encode_move(MoveAt(pokemon.moves, i - 1), pokemon)])
        ELSE Zeros(5) \o Zeros(N_MOVES * 25))

\* a reserve encoder that omits the block of an absent member
EncodeReserveOmitting(pokemon) ==
    IF pokemon.name = None THEN <<>>
    ELSE <<pokemon.current_hp_fraction>>
         \o _encode_types(pokemon)
         \o <<Bool2F(~pokemon.fainted)>>

\* HP(1) + tipos(18) + disponible(1) = 20
_encode_reserve_pokemon(pokemon) ==
    IF pokemon.name = None THEN Zeros(20)
    ELSE <<pokemon.current_hp_fraction>>
         \o _encode_types(pokemon)
         \o <<Bool2F(~pokemon.fainted)>>

\* clima (9 = 8 tipos + sin clima)
WeatherVec(b) ==
    IF b.weather # <<>>
    THEN (IF b.weather[1] \in Range(WEATHERS)
          THEN OneHot(Len(WEATHERS) + 1, IndexOf(WEATHERS, b.weather[1]))
          ELSE OneHot(Len(WEATHERS) + 1, Len(WEATHERS)))
    ELSE OneHot(Len(WEATHERS) + 1, Len(WEATHERS))

\* terreno (5 = 4 tipos + sin terreno): the first field that is a terrain
FieldVec(b) ==
    LET hits == {k \in DOMAIN b.fields : b.fields[k] \in Range(FIELDS)} IN
    IF hits # {}
    THEN OneHot(Len(FIELDS) + 1,
                IndexOf(FIELDS, b.fields[CHOOSE k \in hits : \A j \in hits : k <= j]))
    ELSE OneHot(Len(FIELDS) + 1, Len(FIELDS))

\* pantallas (3) of one side
ScreenVec(sides) ==
    <<Bool2F("reflect" \in DOMAIN sides),
      Bool2F("light_screen" \in DOMAIN sides),
      Bool2F("aurora_veil" \in DOMAIN sides)>>

\* hazards (4) of one side
HazardVec(sides) ==
    <<Bool2F("stealth_rock" \in DOMAIN sides),
      Frac(Get(sides, "spikes", 0), 3),
      Frac(Get(sides, "toxic_spikes", 0), 2),
      Bool2F("sticky_web" \in DOMAIN sides)>>

\* a field encoder that keeps state between calls: it answers only the first
\* call on a battle
EncodeFieldOnce(b) ==
    IF calls # <<>> THEN Zeros(28)
    ELSE WeatherVec(b)
         \o FieldVec(b)
         \o ScreenVec(b.side_conditions)
         \o ScreenVec(b.opponent_side_conditions)
         \o HazardVec(b.side_conditions)
         \o HazardVec(b.opponent_side_conditions)

\* clima(9) + terreno(5) + pantallas(3 + 3) + hazards(4 + 4) = 28
_encode_field(b) ==
    WeatherVec(b)
    \o FieldVec(b)
    \o ScreenVec(b.side_conditions)
    \o ScreenVec(b.opponent_side_conditions)
    \o HazardVec(b.side_conditions)
    \o HazardVec(b.opponent_side_conditions)

---------------------------------------------------------------------------
(* Damage, knock-out probability and speed, as the analysis blocks use     *)
(* them.  The registries of items_and_abilities.py are records keyed by   *)
(* the normalised name; a missing key of an entry is read with Get.        *)

\* Movimientos de punetazo (Iron Fist, Punch Glove)
PUNCH_MOVES ==
    {
     "bulletpunch", "cometpunch", "dizzypunch", "drainpunch", "dynamicpunch",
     "firepunch", "firstimpression", "focuspunch", "hammerarm", "icehammer",
     "icepunch", "machpunch", "megapunch", "meteormash", "poisonjab",
     "poweruppunch", "shadowpunch", "skyuppercut", "superpower",
     "thunderpunch", "zippyzap"
    }

\* Movimientos de retroceso (Reckless)
RECOIL_MOVES ==
    {
     "bravebird", "doubleedge", "flareblitz", "headcharge", "headsmash",
     "highjumpkick", "jumpkick", "submission", "takedown", "volttackle",
     "wildcharge", "woodhammer"
    }

\* Movimientos de mordisco (Strong Jaw)
BITE_MOVES ==
    {
     "bite", "crunch", "firefang", "hyperfang", "icefang", "poisonfang",
     "psychicfangs", "thunderfang"
    }

\* Movimientos de pulso/aura (Mega Launcher)
PULSE_MOVES ==
    {
     "aurasphere", "darkpulse", "dragonpulse", "healpulse", "hokeypokey",
     "lusterpurge", "mindblown", "moonblast", "originpulse", "terrainpulse",
     "waterpulse"
    }

\* Movimientos de sonido (Punk Rock, Soundproof)
SOUND_MOVES ==
    {
     "boomburst", "bugbuzz", "chatter", "clangingscales", "clangoroussoul",
     "disarmingvoice", "echoedvoice", "grasswhistle", "growl", "healbell",
     "hypervoice", "metalsound", "nobleroar", "overdrive", "partingshot",
     "perishsong", "relicsong", "roar", "round", "screech", "sing", "snarl",
     "snore", "sparklingsong", "supersonic", "uproar"
    }

\* Movimientos de contacto fisico, PUNCH_MOVES and BITE_MOVES included
CONTACT_MOVES ==
    {
     "aquajet", "aquastep", "bayonetcharge", "bite", "bodypress", "bodyslam",
     "bravebird", "bulldoze", "bulletpunch", "closecombat", "cometpunch",
     "crunch", "dizzypunch", "doubleedge", "dragonclaw", "dragonrush",
     "dragonwhip", "drainpunch", "dynamicpunch", "extremespeed", "facade",
     "falseswipe", "firefang", "firepunch", "firstimpression", "flareblitz",
     "flyingpress", "focuspunch", "geargrind", "hammerarm", "headsmash",
     "highjumpkick", "hyperfang", "icefang", "icehammer", "icepunch",
     "iciclecrash", "ironhead", "leafblade", "lowkick", "lowsweep", "lunge",
     "machpunch", "megapunch", "meteormash", "nightslash", "outrage",
     "phantomforce", "playrough", "poisonfang", "poisonjab", "poweruppunch",
     "psychicfangs", "psychocut", "rapidspin", "shadowclaw", "shadowpunch",
     "shadowsneak", "skyuppercut", "slash", "stoneedge", "submission",
     "superpower", "takedown", "thunderfang", "thunderpunch", "uturn",
     "woodhammer", "xscissor", "zenheadbutt", "zippyzap"
    }

\* Movimientos de bola/bomba (Bulletproof): the second assignment of the
\* module, which replaces the first
BALL_BOMB_MOVES ==
    {
     "acidspray", "aurasphere", "barrage", "beachbomb", "boulderheave",
     "cannonball", "darkpulse", "dragonball", "eggbomb", "electroball",
     "energyball", "focusblast", "gunkshot", "gyroball", "iceball",
     "iceballmove", "icyball", "leafstorm", "magicroom", "magnetbomb",
     "maliciousmoonsault", "mistball", "mudbomb", "octazooka", "particlestorm",
     "payday", "pollenpuff", "rockblast", "rockwrecker", "seedbomb",
     "seedflare", "shadowball", "sludgebomb", "smellingsalts", "solarbeam",
     "syrupbomb", "thunderball", "weatherball", "zapbomb", "zingzap"
    }

\* ATTACK_ITEMS
ATTACK_ITEMS ==
    [
     lifeorb |-> [mult |-> <<13, 10>>, category |-> None],
     muscleband |-> [mult |-> <<11, 10>>, category |-> "physical"],
     wiseglasses |-> [mult |-> <<11, 10>>, category |-> "special"],
     expertbelt |-> [mult |-> <<6, 5>>,
                    category |-> None,
                    supereffective_only |-> TRUE],
     choiceband |-> [mult |-> <<3, 2>>, category |-> "physical"],
     choicespecs |-> [mult |-> <<3, 2>>, category |-> "special"],
     choicescarf |-> [mult |-> <<1, 1>>, category |-> None],
     adamantorb |-> [mult |-> <<6, 5>>,
                    category |-> None,
                    user_species |-> {"dialga"},
                    types |-> {"dragon", "steel"}],
     lustrousorb |-> [mult |-> <<6, 5>>,
                     category |-> None,
                     user_species |-> {"palkia"},
                     types |-> {"dragon", "water"}],
     griseousorb |-> [mult |-> <<6, 5>>,
                     category |-> None,
                     user_species |-> {"giratina"},
                     types |-> {"dragon", "ghost"}],
     souldew |-> [mult |-> <<6, 5>>,
                 category |-> None,
                 user_species |-> {"latias", "latios"},
                 types |-> {"dragon", "psychic"}],
     punchingglove |-> [mult |-> <<11, 10>>,
                       category |-> "physical",
                       punch_only |-> TRUE],
     throatspray |-> [mult |-> <<1, 1>>,
                     category |-> "special",
                     note |-> "reactive"],
     metronome |-> [mult |-> <<1, 1>>,
                   category |-> None,
                   note |-> "stackable"]
    ]

\* DEFENSE_ITEMS
DEFENSE_ITEMS ==
    [
     eviolite |-> [divisor |-> <<3, 2>>, category |-> None],
     assaultvest |-> [divisor |-> <<3, 2>>, category |-> "special"],
     occaberry |-> [divisor |-> <<2, 1>>,
                   category |-> "physical",
                   type |-> "fire",
                   note |-> "consumed_on_hit"],
     passhoberry |-> [divisor |-> <<2, 1>>,
                     category |-> "special",
                     type |-> "water",
                     note |-> "consumed_on_hit"],
     wacanberry |-> [divisor |-> <<2, 1>>,
                    category |-> "special",
                    type |-> "electric",
                    note |-> "consumed_on_hit"],
     rindoberry |-> [divisor |-> <<2, 1>>,
                    category |-> "special",
                    type |-> "grass",
                    note |-> "consumed_on_hit"],
     yacheberry |-> [divisor |-> <<2, 1>>,
                    category |-> "special",
                    type |-> "ice",
                    note |-> "consumed_on_hit"],
     chopleberry |-> [divisor |-> <<2, 1>>,
                     category |-> "physical",
                     type |-> "fighting",
                     note |-> "consumed_on_hit"],
     kebiaberry |-> [divisor |-> <<2, 1>>,
                    category |-> "physical",
                    type |-> "poison",
                    note |-> "consumed_on_hit"],
     shucaberry |-> [divisor |-> <<2, 1>>,
                    category |-> "physical",
                    type |-> "ground",
                    note |-> "consumed_on_hit"],
     cobaberry |-> [divisor |-> <<2, 1>>,
                   category |-> "physical",
                   type |-> "flying",
                   note |-> "consumed_on_hit"],
     payapaberry |-> [divisor |-> <<2, 1>>,
                     category |-> "special",
                     type |-> "psychic",
                     note |-> "consumed_on_hit"],
     tangaberry |-> [divisor |-> <<2, 1>>,
                    category |-> "physical",
                    type |-> "bug",
                    note |-> "consumed_on_hit"],
     chartiberry |-> [divisor |-> <<2, 1>>,
                     category |-> "special",
                     type |-> "rock",
                     note |-> "consumed_on_hit"],
     kasibberry |-> [divisor |-> <<2, 1>>,
                    category |-> "special",
                    type |-> "ghost",
                    note |-> "consumed_on_hit"],
     habanberry |-> [divisor |-> <<2, 1>>,
                    category |-> "special",
                    type |-> "dragon",
                    note |-> "consumed_on_hit"],
     colburberry |-> [divisor |-> <<2, 1>>,
                     category |-> "special",
                     type |-> "dark",
                     note |-> "consumed_on_hit"],
     babiriberry |-> [divisor |-> <<2, 1>>,
                     category |-> "physical",
                     type |-> "steel",
                     note |-> "consumed_on_hit"],
     chilanberry |-> [divisor |-> <<2, 1>>,
                     category |-> "physical",
                     type |-> "normal",
                     note |-> "consumed_on_hit"],
     roseliberry |-> [divisor |-> <<2, 1>>,
                     category |-> "special",
                     type |-> "fairy",
                     note |-> "consumed_on_hit"],
     rockyhelmet |-> [divisor |-> <<1, 1>>,
                     category |-> None,
                     note |-> "recoil_to_attacker"]
    ]

\* SPEED_ITEMS
SPEED_ITEMS ==
    [
     choicescarf |-> [mult |-> <<3, 2>>],
     ironball |-> [mult |-> <<1, 2>>],
     machobrace |-> [mult |-> <<1, 2>>],
     powerweight |-> [mult |-> <<1, 2>>],
     powerbracer |-> [mult |-> <<1, 2>>],
     powerbelt |-> [mult |-> <<1, 2>>],
     powerlens |-> [mult |-> <<1, 2>>],
     powerband |-> [mult |-> <<1, 2>>],
     poweranklet |-> [mult |-> <<1, 2>>],
     quickpowder |-> [mult |-> <<2, 1>>, user_species |-> {"ditto"}],
     fullincense |-> [mult |-> <<1, 2>>, note |-> "moves_last"],
     laggingitail |-> [mult |-> <<1, 2>>, note |-> "moves_last"],
     salacberry |-> [mult |-> <<3, 2>>, note |-> "reactive_low_hp"],
     etherberry |-> [mult |-> <<1, 1>>, note |-> "reactive"]
    ]

\* TYPE_BOOST_ITEMS
TYPE_BOOST_ITEMS ==
    [
     silkscarf |-> "normal",
     normalplate |-> "normal",
     blackbelt |-> "fighting",
     fistplate |-> "fighting",
     blackgloveitem |-> "fighting",
     sharpbeak |-> "flying",
     skyplate |-> "flying",
     poisonbarb |-> "poison",
     toxicplate |-> "poison",
     softsand |-> "ground",
     earthplate |-> "ground",
     hardstone |-> "rock",
     stoneplate |-> "rock",
     silverpowder |-> "bug",
     insectplate |-> "bug",
     spelltag |-> "ghost",
     spookyplate |-> "ghost",
     metalcoat |-> "steel",
     ironplate |-> "steel",
     charcoal |-> "fire",
     flameplate |-> "fire",
     mysticwater |-> "water",
     splashplate |-> "water",
     seaincense |-> "water",
     waveincense |-> "water",
     miracleseed |-> "grass",
     meadowplate |-> "grass",
     roseincense |-> "grass",
     magnet |-> "electric",
     zapplate |-> "electric",
     twistedspoon |-> "psychic",
     mindplate |-> "psychic",
     oddincense |-> "psychic",
     nevermeltice |-> "ice",
     icicleplate |-> "ice",
     dragonfang |-> "dragon",
     dracoplate |-> "dragon",
     blackglasses |-> "dark",
     dreadplate |-> "dark",
     fairyfeather |-> "fairy",
     pixieplate |-> "fairy",
     adamantorb |-> "dragon",
     lustrousorb |-> "dragon",
     griseousorb |-> "dragon",
     souldew |-> "dragon"
    ]

\* LEGENDARY_ORB_SECONDARY
LEGENDARY_ORB_SECONDARY ==
    [
     adamantorb |-> "steel",
     lustrousorb |-> "water",
     griseousorb |-> "ghost",
     souldew |-> "psychic"
    ]

\* ATTACK_ABILITIES
ATTACK_ABILITIES ==
    [
     adaptability |-> [stab_mult |-> <<2, 1>>, condition |-> "always"],
     protean |-> [always_stab |-> TRUE, stab_mult |-> <<3, 2>>],
     libero |-> [always_stab |-> TRUE, stab_mult |-> <<3, 2>>],
     steelworker |-> [mult |-> <<3, 2>>, type |-> "steel"],
     transistor |-> [mult |-> <<3, 2>>, type |-> "electric"],
     dragonsmaw |-> [mult |-> <<3, 2>>, type |-> "dragon"],
     rockypayload |-> [mult |-> <<3, 2>>, type |-> "rock"],
     hadronengine |-> [mult |-> <<1333, 1000>>,
                      type |-> "electric",
                      condition |-> "electric_terrain"],
     orichalcumpulse |-> [mult |-> <<1333, 1000>>,
                         type |-> "fire",
                         condition |-> "sunny"],
     hustle |-> [mult |-> <<3, 2>>,
                category |-> "physical",
                accuracy_penalty |-> <<4, 5>>],
     gorilltatactics |-> [mult |-> <<3, 2>>,
                         category |-> "physical",
                         condition |-> "locks_to_one_move"],
     blaze |-> [mult |-> <<3, 2>>,
               type |-> "fire",
               condition |-> "hp_below_third"],
     torrent |-> [mult |-> <<3, 2>>,
                 type |-> "water",
                 condition |-> "hp_below_third"],
     overgrow |-> [mult |-> <<3, 2>>,
                  type |-> "grass",
                  condition |-> "hp_below_third"],
     swarm |-> [mult |-> <<3, 2>>,
               type |-> "bug",
               condition |-> "hp_below_third"],
     guts |-> [mult |-> <<3, 2>>,
              category |-> "physical",
              condition |-> "status",
              negates_burn |-> TRUE],
     marvelscale |-> [mult |-> <<1, 1>>,
                     condition |-> "status",
                     note |-> "defensa, no ataque"],
     quickfeet |-> [mult |-> <<1, 1>>,
                   condition |-> "status",
                   note |-> "velocidad, no ataque"],
     flareBoost |-> [mult |-> <<3, 2>>,
                    category |-> "special",
                    condition |-> "burned"],
     toxicboost |-> [mult |-> <<3, 2>>,
                    category |-> "physical",
                    condition |-> "poisoned"],
     technician |-> [mult |-> <<3, 2>>, condition |-> "base_power_60_or_less"],
     sheerforce |-> [mult |-> <<13, 10>>, condition |-> "move_has_secondary"],
     reckless |-> [mult |-> <<6, 5>>, move_set |-> "RECOIL_MOVES"],
     ironfist |-> [mult |-> <<6, 5>>, move_set |-> "PUNCH_MOVES"],
     strongjaw |-> [mult |-> <<3, 2>>, move_set |-> "BITE_MOVES"],
     megalauncher |-> [mult |-> <<3, 2>>, move_set |-> "PULSE_MOVES"],
     toughclaws |-> [mult |-> <<13, 10>>, move_set |-> "CONTACT_MOVES"],
     punkrock |-> [mult |-> <<13, 10>>, move_set |-> "SOUND_MOVES"],
     sandforce |-> [mult |-> <<13, 10>>,
                   type |-> {"ground", "rock", "steel"},
                   condition |-> "sandstorm",
                   category |-> "physical"],
     analytic |-> [mult |-> <<13, 10>>, condition |-> "moves_last"],
     tintedlens |-> [mult |-> <<2, 1>>, condition |-> "not_very_effective"],
     aerilate |-> [mult |-> <<6, 5>>, type_change |-> <<"normal", "flying">>],
     pixilate |-> [mult |-> <<6, 5>>, type_change |-> <<"normal", "fairy">>],
     refrigerate |-> [mult |-> <<6, 5>>, type_change |-> <<"normal", "ice">>],
     galvanize |-> [mult |-> <<6, 5>>,
                   type_change |-> <<"normal", "electric">>],
     liquidvoice |-> [mult |-> <<1, 1>>, type_change |-> <<"sound", "water">>],
     normalize |-> [mult |-> <<1, 1>>, type_change |-> <<"all", "normal">>],
     electricsurge |-> [mult |-> <<1, 1>>, note |-> "sets_electric_terrain"],
     psychicsurge |-> [mult |-> <<1, 1>>, note |-> "sets_psychic_terrain"],
     neuroforce |-> [mult |-> <<5, 4>>, condition |-> "supereffective"],
     sniper |-> [mult |-> <<3, 2>>, condition |-> "critical_hit"],
     supremeoverlord |-> [mult |-> <<11, 10>>,
                         condition |-> "per_fainted_ally",
                         note |-> "max_5_stacks"],
     powerspot |-> [mult |-> <<13, 10>>, note |-> "doubles_only"],
     steelyspirit |-> [mult |-> <<3, 2>>,
                      type |-> "steel",
                      note |-> "ally_boost_doubles"],
     solarpower |-> [mult |-> <<3, 2>>,
                    category |-> "special",
                    condition |-> "sunny",
                    hp_cost |-> <<1, 8>>],
     sandstorm |-> [mult |-> <<1, 1>>, note |-> "sets_sandstorm"],
     snowwarning |-> [mult |-> <<1, 1>>, note |-> "sets_snow_gen9"],
     deathmask |-> [mult |-> <<13, 10>>,
                   condition |-> "opponent_fainted_last_turn"],
     stench |-> [mult |-> <<1, 1>>, note |-> "flinch_10pct"]
    ]

\* DEFENSE_ABILITIES
DEFENSE_ABILITIES ==
    [
     levitate |-> [immune |-> "ground",
                  note |-> "anulada_por_gravity_ringout_ironball"],
     flashfire |-> [immune |-> "fire", note |-> "boost_fire_tras_absorber"],
     waterabsorb |-> [immune |-> "water", note |-> "cura_25pct_hp"],
     dryskin |-> [immune |-> "water",
                 mult |-> <<5, 4>>,
                 type |-> "fire",
                 note |-> "recibe_mas_fuego_se_cura_con_agua_y_lluvia"],
     stormdrain |-> [immune |-> "water", note |-> "boost_spa_tras_absorber"],
     voltabsorb |-> [immune |-> "electric", note |-> "cura_25pct_hp"],
     motordrive |-> [immune |-> "electric",
                    note |-> "boost_spe_tras_absorber"],
     lightningrod |-> [immune |-> "electric", note |-> "boost_spa_en_doubles"],
     sapsipper |-> [immune |-> "grass", note |-> "boost_atk_tras_absorber"],
     eartheater |-> [immune |-> "ground", note |-> "gen9_cura_25pct_hp"],
     windrider |-> [immune |-> "flying", note |-> "gen9_boost_atk"],
     wellbakedbody |-> [immune |-> "fire", note |-> "gen9_boost_def"],
     steamengine |-> [immune |-> "water", note |-> "boost_spe_tras_absorber"],
     bulletproof |-> [immune_move_set |-> "BALL_BOMB_MOVES",
                     note |-> "inmune_a_balas_bombas"],
     soundproof |-> [immune_move_set |-> "SOUND_MOVES",
                    note |-> "inmune_a_sonido"],
     telepathy |-> [immune |-> "ally_moves", note |-> "doubles_only"],
     suctioncups |-> [immune |-> "phazing", note |-> "no_es_arrastrado"],
     overcoat |-> [immune |-> "weather_damage",
                  note |-> "y_movimientos_de_polvo"],
     magicguard |-> [immune |-> "indirect_damage",
                    note |-> "solo_daño_directo"],
     wonderguard |-> [condition |-> "immune_unless_supereffective"],
     thickfat |-> [divisor |-> <<2, 1>>, type |-> {"fire", "ice"}],
     heatproof |-> [divisor |-> <<2, 1>>, type |-> "fire"],
     purifyingsalt |-> [divisor |-> <<2, 1>>, type |-> "ghost"],
     icescales |-> [divisor |-> <<2, 1>>, category |-> "special"],
     multiscale |-> [divisor |-> <<2, 1>>, condition |-> "full_hp"],
     shadowshield |-> [divisor |-> <<2, 1>>, condition |-> "full_hp"],
     filter |-> [divisor |-> <<1333, 1000>>, condition |-> "supereffective"],
     solidrock |-> [divisor |-> <<1333, 1000>>,
                   condition |-> "supereffective"],
     prismarmor |-> [divisor |-> <<1333, 1000>>,
                    condition |-> "supereffective"],
     fluffy |-> [divisor |-> <<2, 1>>,
                category |-> "physical",
                contact_only |-> TRUE,
                extra |-> [mult |-> <<2, 1>>, type |-> "fire"]],
     punkrock |-> [divisor |-> <<2, 1>>, move_set |-> "SOUND_MOVES"],
     fairyaura |-> [note |-> "mult_fairy_for_all", note2 |-> "doubles_mainly"],
     darkaura |-> [note |-> "mult_dark_for_all"],
     aurabreak |-> [note |-> "inverts_fairy_dark_aura"],
     furcoat |-> [divisor |-> <<2, 1>>, category |-> "physical"],
     marvelscale |-> [divisor |-> <<3, 2>>,
                     category |-> "physical",
                     condition |-> "status"],
     grasspelt |-> [divisor |-> <<3, 2>>,
                   category |-> "physical",
                   condition |-> "grassy_terrain"],
     dazzling |-> [immune |-> "priority_moves", note |-> "prioridad_rival"],
     queenlymajesty |-> [immune |-> "priority_moves"],
     armortail |-> [immune |-> "priority_moves", note |-> "gen9"],
     goodasgold |-> [immune |-> "status_moves", note |-> "gen9"],
     guarddog |-> [immune |-> "intimidate", note |-> "gen9_boost_atk_instead"],
     roughskin |-> [note |-> "1/8_hp_recoil_to_attacker_on_contact"],
     ironbarbs |-> [note |-> "1/8_hp_recoil_to_attacker_on_contact"],
     rockyhelmet |-> [note |-> "ITEM_no_habilidad"],
     cottondown |-> [note |-> "reduce_spe_atacante_en_1"],
     perishbody |-> [note |-> "ambos_faint_en_3_turnos_si_contacto"],
     wanderingspirit |-> [note |-> "intercambia_habilidad_con_atacante_en_contacto"],
     gooey |-> [note |-> "reduce_spe_atacante_en_1_por_contacto"],
     tanglinghair |-> [note |-> "reduce_spe_atacante_en_1_por_contacto"]
    ]

\* SPEED_ABILITIES
SPEED_ABILITIES ==
    [
     swiftswim |-> [mult |-> <<2, 1>>, condition |-> "rain"],
     chlorophyll |-> [mult |-> <<2, 1>>, condition |-> "sun"],
     sandrush |-> [mult |-> <<2, 1>>, condition |-> "sandstorm"],
     slushrush |-> [mult |-> <<2, 1>>, condition |-> "hail_or_snow"],
     surgesurfer |-> [mult |-> <<2, 1>>, condition |-> "electric_terrain"],
     speedboost |-> [mult |-> <<1, 1>>,
                    condition |-> "per_turn",
                    note |-> "+1 spe al final de cada turno"],
     unburden |-> [mult |-> <<2, 1>>, condition |-> "item_lost"],
     quickfeet |-> [mult |-> <<3, 2>>, condition |-> "status"],
     slowstart |-> [mult |-> <<1, 2>>, condition |-> "first_5_turns"],
     stall |-> [mult |-> <<1, 2>>, note |-> "mueve_al_final"],
     truant |-> [mult |-> <<1, 1>>, note |-> "solo_actua_cada_2_turnos"],
     prankster |-> [mult |-> <<1, 1>>, note |-> "prioridad_+1_status_moves"],
     triage |-> [mult |-> <<1, 1>>, note |-> "prioridad_+3_curacion"],
     galewings |-> [mult |-> <<1, 1>>,
                   note |-> "prioridad_+1_flying_a_full_hp"],
     queenofwings |-> [mult |-> <<1, 1>>,
                      note |-> "prioridad_flying_en_viento"]
    ]

\* STAT_DROP_ABILITIES
STAT_DROP_ABILITIES ==
    [
     intimidate |-> [stat |-> "atk", stages |-> -1, target |-> "opponent"],
     cottondown |-> [stat |-> "spe", stages |-> -1, target |-> "opponent"],
     icyscale |-> [stat |-> "spa",
                  stages |-> -1,
                  target |-> "opponent",
                  note |-> "gen9"],
     electromorphosis |-> [note |-> "carga_un_bono_de_electrico",
                          note2 |-> "no_stat_drop"]
    ]

\* the notes of DEFENSE_ITEMS that contain "consumed"
ConsumedNotes == {"consumed_on_hit"}

\* a dict without keys: what dict.get(name, {}) returns for an unknown name
NoParams == [k \in {} |-> None]

\* the spellings of identifiers that are not in normal form, with what
\* s.lower().replace(" ", "").replace("-", "").replace("_", "") makes of them
Spellings ==
    ("Life Orb" :> "lifeorb") @@ ("Choice Band" :> "choiceband")
    @@ ("choice-scarf" :> "choicescarf") @@ ("Occa_Berry" :> "occaberry")
    @@ ("Heavy-Duty Boots" :> "heavydutyboots") @@ ("Thick Fat" :> "thickfat")
    @@ ("GUTS" :> "guts") @@ ("Dry_Skin" :> "dryskin")
    @@ ("Swift Swim" :> "swiftswim") @@ ("Gorilla Tactics" :> "gorillatactics")
    @@ ("flareBoost" :> "flareboost") @@ ("Run Away" :> "runaway")

\* Normaliza nombre de item/habilidad para comparacion uniforme
clean(s) ==
    IF s = None THEN None
    ELSE IF s \in DOMAIN Spellings THEN Spellings[s]
    ELSE s

\* Python truth value of an identifier: None and "" are false
Truthy(s) == s # None /\ s # ""

get_attack_item_mult(item_name, is_physical, move_type, effectiveness) ==
    IF item_name = None THEN One
    ELSE
    LET entry == Get(ATTACK_ITEMS, item_name, NoParams)
        category == Get(entry, "category", None)
        supereff == Get(entry, "supereffective_only", FALSE)
        by_category == IF category = "physical" /\ ~is_physical THEN One
                       ELSE IF category = "special" /\ is_physical THEN One
                       ELSE Get(entry, "mult", One)
        item_mult == IF supereff /\ FLess(effectiveness, <<2, 1>>) THEN One
                     ELSE by_category
        mult == IF DOMAIN entry # {} THEN item_mult ELSE One
        boosted == move_type # None /\ item_name \in DOMAIN TYPE_BOOST_ITEMS
        primary == IF boosted /\ TYPE_BOOST_ITEMS[item_name] = move_type
                   THEN FMul(mult, <<6, 5>>) ELSE mult
    IN  IF boosted /\ item_name \in DOMAIN LEGENDARY_ORB_SECONDARY
                   /\ LEGENDARY_ORB_SECONDARY[item_name] = move_type
        THEN FMul(primary, <<6, 5>>) ELSE primary

get_defense_item_divisor(item_name, is_physical, move_type) ==
    IF item_name = None THEN One
    ELSE
    LET entry == Get(DEFENSE_ITEMS, item_name, NoParams)
        divisor == Get(entry, "divisor", One)
        category == Get(entry, "category", None)
        itype == Get(entry, "type", None)
        note == Get(entry, "note", "")
    IN  IF DOMAIN entry = {} THEN One
        ELSE IF note \in ConsumedNotes /\ itype # None /\ move_type # itype THEN One
        ELSE IF category = "physical" /\ ~is_physical THEN One
        ELSE IF category = "special" /\ is_physical THEN One
        ELSE IF itype # None /\ itype \in Range(TYPES) /\ move_type # itype THEN One
        ELSE divisor

get_speed_item_mult(item_name) ==
    IF item_name = None THEN One
    ELSE LET entry == Get(SPEED_ITEMS, item_name, NoParams) IN
         IF DOMAIN entry # {} THEN Get(entry, "mult", One) ELSE One

\* weather and field are the sets of active weathers and fields
get_speed_ability_mult(ability_name, weather, field, has_status, item_lost) ==
    IF ability_name = None THEN One
    ELSE
    LET entry == Get(SPEED_ABILITIES, ability_name, NoParams)
        mult == Get(entry, "mult", One)
        condition == Get(entry, "condition", "")
    IN  IF DOMAIN entry = {} THEN One
        ELSE IF condition = "rain"
        THEN (IF weather \cap {"raindance", "primordialsea"} # {} THEN mult ELSE One)
        ELSE IF condition = "sun"
        THEN (IF weather \cap {"sunnyday", "desolateland"} # {} THEN mult ELSE One)
        ELSE IF condition = "sandstorm"
        THEN (IF "sandstorm" \in weather THEN mult ELSE One)
        ELSE IF condition = "hail_or_snow"
        THEN (IF weather \cap {"hail", "snow"} # {} THEN mult ELSE One)
        ELSE IF condition = "electric_terrain"
        THEN (IF "electric_terrain" \in field THEN mult ELSE One)
        ELSE IF condition = "status" THEN (IF has_status THEN mult ELSE One)
        ELSE IF condition = "item_lost" THEN (IF item_lost THEN mult ELSE One)
        ELSE IF condition = "first_5_turns" THEN mult
        ELSE One

get_attack_ability_params(ability_name) == Get(ATTACK_ABILITIES, ability_name, NoParams)

\* parameters whose divisor works the other way round
DefenseParamsInverted(ability_name) ==
    LET params == Get(DEFENSE_ABILITIES, ability_name, NoParams) IN
    IF "divisor" \in DOMAIN params THEN [params EXCEPT !.divisor = FInv(@)] ELSE params

get_defense_ability_params(ability_name) == Get(DEFENSE_ABILITIES, ability_name, NoParams)

\* stab_override = None
NoOverride == <<>>

\* Habilidades del ATACANTE: the factor the if / elif chain applies to atk_mult
AttackerAbilityMult(atk_ability, attacker, defender, move_type, is_physical, base_power, move_name, effectiveness) ==
    LET params == get_attack_ability_params(atk_ability)
        hp == attacker.current_hp_fraction
        low == FLess(hp, <<33, 100>>)
        own_spe == _stat_at_100(Get(attacker.base_stats, "spe", 50), FALSE)
        opp_spe == _stat_at_100(Get(defender.base_stats, "spe", 50), FALSE)
    IN  IF atk_ability = "adaptability" THEN One
        ELSE IF atk_ability \in {"protean", "libero"} THEN One
        ELSE IF atk_ability \in {"steelworker", "transistor", "dragonsmaw", "rockypayload"}
        THEN (IF move_type = Get(params, "type", None) THEN Get(params, "mult", One) ELSE One)
        ELSE IF atk_ability = "hadronengine"
        THEN (IF move_type = "electric" THEN <<1333, 1000>> ELSE One)
        ELSE IF atk_ability = "orichalcumpulse"
        THEN (IF move_type = "fire" THEN <<1333, 1000>> ELSE One)
        ELSE IF atk_ability = "hustle" /\ is_physical THEN <<3, 2>>
        ELSE IF atk_ability = "gorillatactics" /\ is_physical THEN <<3, 2>>
        ELSE IF atk_ability = "guts" /\ is_physical
        THEN (IF attacker.status # None THEN <<3, 2>> ELSE One)
        ELSE IF atk_ability = "flareboost" /\ ~is_physical
        THEN (IF attacker.status = "brn" THEN <<3, 2>> ELSE One)
        ELSE IF atk_ability = "toxicboost" /\ is_physical
        THEN (IF attacker.status \in {"psn", "tox"} THEN <<3, 2>> ELSE One)
        ELSE IF atk_ability = "blaze" /\ move_type = "fire"
        THEN (IF low THEN <<3, 2>> ELSE One)
        ELSE IF atk_ability = "torrent" /\ move_type = "water"
        THEN (IF low THEN <<3, 2>> ELSE One)
        ELSE IF atk_ability = "overgrow" /\ move_type = "grass"
        THEN (IF low THEN <<3, 2>> ELSE One)
        ELSE IF atk_ability = "swarm" /\ move_type = "bug"
        THEN (IF low THEN <<3, 2>> ELSE One)
        ELSE IF atk_ability = "technician"
        THEN (IF 0 < base_power /\ base_power <= 60 THEN <<3, 2>> ELSE One)
        ELSE IF atk_ability = "sheerforce"
        THEN (IF base_power > 0 THEN <<13, 10>> ELSE One)
        ELSE IF atk_ability = "reckless"
        THEN (IF move_name \in RECOIL_MOVES THEN <<6, 5>> ELSE One)
        ELSE IF atk_ability = "ironfist"
        THEN (IF move_name \in PUNCH_MOVES THEN <<6, 5>> ELSE One)
        ELSE IF atk_ability = "strongjaw"
        THEN (IF move_name \in BITE_MOVES THEN <<3, 2>> ELSE One)
        ELSE IF atk_ability = "megalauncher"
        THEN (IF move_name \in PULSE_MOVES THEN <<3, 2>> ELSE One)
        ELSE IF atk_ability = "toughclaws"
        THEN (IF move_name \in CONTACT_MOVES THEN <<13, 10>> ELSE One)
        ELSE IF atk_ability = "punkrock"
        THEN (IF move_name \in SOUND_MOVES THEN <<13, 10>> ELSE One)
        ELSE IF atk_ability = "sandforce" /\ is_physical
        THEN (IF move_type \in {"rock", "steel", "ground"} THEN <<13, 10>> ELSE One)
        ELSE IF atk_ability = "analytic"
        THEN (IF FLess(own_spe, opp_spe) THEN <<13, 10>> ELSE One)
        ELSE IF atk_ability = "tintedlens"
        THEN (IF FLess(effectiveness, One)
              THEN (IF FLess(Zero, effectiveness) THEN FDiv(One, effectiveness) ELSE One)
              ELSE One)
        ELSE IF atk_ability = "neuroforce" /\ FLeq(<<2, 1>>, effectiveness) THEN <<5, 4>>
        ELSE IF atk_ability \in {"aerilate", "pixilate", "refrigerate", "galvanize"}
        THEN (IF move_type = "normal" THEN <<6, 5>> ELSE One)
        ELSE IF atk_ability = "solarpower" /\ ~is_physical THEN <<3, 2>>
        ELSE IF atk_ability = "punchingglove" /\ move_name \in PUNCH_MOVES /\ is_physical
        THEN <<11, 10>>
        ELSE One

\* Habilidades del ATACANTE: stab_override
AttackerStabOverride(atk_ability) ==
    IF atk_ability = "adaptability" THEN <<2, 1>>
    ELSE IF atk_ability \in {"protean", "libero"} THEN <<3, 2>>
    ELSE NoOverride

\* hasattr(defender, '_battle') and defender._battle and
\* Field.GRASSY_TERRAIN in defender._battle.fields
OnGrassyTerrain(defender) ==
    /\ "_battle" \in DOMAIN defender
    /\ "grassy_terrain" \in Range(defender["_battle"].fields)

\* Habilidades del DEFENSOR: the if / elif chain, as (def_mult, immune)
DefenderAbility(def_ability, defender, move_type, is_physical, move_name, effectiveness) ==
    LET params == get_defense_ability_params(def_ability)
        immune_val == Get(params, "immune", None)
        is_supereff == FLeq(<<2, 1>>, effectiveness)
        IsImmune == [def_mult |-> One, immune |-> TRUE]
        Divide(d) == [def_mult |-> d, immune |-> FALSE]
    IN  IF immune_val \in Range(TYPES) /\ move_type = immune_val THEN IsImmune
        ELSE IF def_ability = "dryskin" /\ move_type = "water" THEN IsImmune
        ELSE IF def_ability = "wonderguard" /\ ~is_supereff THEN IsImmune
        ELSE IF def_ability = "bulletproof" /\ move_name \in BALL_BOMB_MOVES THEN IsImmune
        ELSE IF def_ability = "soundproof" /\ move_name \in SOUND_MOVES THEN IsImmune
        ELSE IF def_ability \in {"thickfat"}
        THEN (IF move_type \in Get(params, "type", {})
              THEN Divide(Get(params, "divisor", One)) ELSE Divide(One))
        ELSE IF def_ability \in {"heatproof", "purifyingsalt"}
        THEN (IF move_type = Get(params, "type", None)
              THEN Divide(Get(params, "divisor", One)) ELSE Divide(One))
        ELSE IF def_ability = "icescales" /\ ~is_physical
        THEN Divide(Get(params, "divisor", <<2, 1>>))
        ELSE IF def_ability \in {"multiscale", "shadowshield"}
        THEN (IF FLeq(<<99, 100>>, defender.current_hp_fraction)
              THEN Divide(Get(params, "divisor", <<2, 1>>)) ELSE Divide(One))
        ELSE IF def_ability \in {"filter", "solidrock", "prismarmor"} /\ is_supereff
        THEN Divide(Get(params, "divisor", <<1333, 1000>>))
        ELSE IF def_ability = "fluffy"
        THEN (IF move_type = "fire" THEN Divide(<<1, 2>>)
              ELSE IF is_physical /\ move_name \in CONTACT_MOVES
              THEN Divide(Get(params, "divisor", <<2, 1>>))
              ELSE Divide(One))
        ELSE IF def_ability = "furcoat" /\ is_physical
        THEN Divide(Get(params, "divisor", <<2, 1>>))
        ELSE IF def_ability = "marvelscale" /\ is_physical
        THEN (IF defender.status # None
              THEN Divide(Get(params, "divisor", <<3, 2>>)) ELSE Divide(One))
        ELSE IF def_ability = "grasspelt" /\ is_physical
        THEN (IF OnGrassyTerrain(defender) THEN Divide(<<3, 2>>) ELSE Divide(One))
        ELSE IF def_ability = "punkrock" /\ move_name \in SOUND_MOVES
        THEN Divide(Get(params, "divisor", <<2, 1>>))
        ELSE IF def_ability = "dryskin" /\ move_type = "fire" THEN Divide(<<4, 5>>)
        ELSE Divide(One)

\* (atk_mult, def_mult, stab_override, immune)
_get_ability_multipliers(attacker, defender, move) ==
    LET atk_ability == clean(Get(attacker, "ability", None))
        def_ability == clean(Get(defender, "ability", None))
        present == move.id # None
        move_type == IF present THEN move.type ELSE None
        is_physical == IF present THEN move.category = "physical" ELSE TRUE
        base_power == IF present THEN move.base_power ELSE 0
        move_name == IF present THEN move.id ELSE ""
        effectiveness == IF move_type # None
                         THEN _type_effectiveness(move_type, defender) ELSE One
        def == IF Truthy(def_ability) /\ move_type # None
               THEN DefenderAbility(def_ability, defender, move_type, is_physical,
                                    move_name, effectiveness)
               ELSE [def_mult |-> One, immune |-> FALSE]
    IN  [atk_mult |-> IF Truthy(atk_ability)
                      THEN AttackerAbilityMult(atk_ability, attacker, defender, move_type,
                                               is_physical, base_power, move_name,
                                               effectiveness)
                      ELSE One,
         def_mult |-> def.def_mult,
         stab_override |-> IF Truthy(atk_ability)
                           THEN AttackerStabOverride(atk_ability) ELSE NoOverride,
         immune |-> def.immune]

\* the enum of the active weather, or None
_get_weather_key(b) == IF b.weather = <<>> THEN None ELSE b.weather[1]

_get_weather_multiplier(move_type, b) ==
    LET w == _get_weather_key(b) IN
    IF w = None THEN One
    ELSE IF w \in {"sunnyday", "desolateland"}
    THEN (IF move_type = "fire" THEN <<3, 2>>
          ELSE IF move_type = "water" THEN <<1, 2>> ELSE One)
    ELSE IF w \in {"raindance", "primordialsea"}
    THEN (IF move_type = "water" THEN <<3, 2>>
          ELSE IF move_type = "fire" THEN <<1, 2>> ELSE One)
    ELSE One

_get_terrain_multiplier(move_type, b) ==
    IF b.fields = <<>> THEN One
    ELSE IF "electric_terrain" \in Range(b.fields) /\ move_type = "electric" THEN <<13, 10>>
    ELSE IF "grassy_terrain" \in Range(b.fields) /\ move_type = "grass" THEN <<13, 10>>
    ELSE IF "misty_terrain" \in Range(b.fields) /\ move_type = "dragon" THEN <<1, 2>>
    ELSE IF "psychic_terrain" \in Range(b.fields) /\ move_type = "psychic" THEN <<13, 10>>
    ELSE One

\* a divisor that stacks: 2.0 for every screen that applies
ScreenDivisorStacked(b, is_physical, is_own_attack) ==
    LET sides == IF is_own_attack THEN b.opponent_side_conditions ELSE b.side_conditions
        veil == IF "aurora_veil" \in DOMAIN sides THEN <<2, 1>> ELSE One
        wall == IF \/ is_physical /\ "reflect" \in DOMAIN sides
                   \/ ~is_physical /\ "light_screen" \in DOMAIN sides
                THEN <<2, 1>> ELSE One
    IN  FMul(veil, wall)

_get_screen_divisor(b, is_physical, is_own_attack) ==
    LET sides == IF is_own_attack THEN b.opponent_side_conditions ELSE b.side_conditions IN
    IF "aurora_veil" \in DOMAIN sides THEN <<2, 1>>
    ELSE IF is_physical /\ "reflect" \in DOMAIN sides THEN <<2, 1>>
    ELSE IF ~is_physical /\ "light_screen" \in DOMAIN sides THEN <<2, 1>>
    ELSE One

\* a base damage that floors the ratio of the stats first
BaseDamageOfFlooredRatio(power, atk_real, def_real) ==
    ((((2 * 100) \div 5 + 2) * power * FFloor(FDiv(atk_real, def_real))) \div 50) + 2

\* floor(floor(floor(2 * 100 / 5 + 2) * power * atk / def / 50) + 2)
BaseDamage(power, atk_real, def_real) ==
    FFloor(FDiv(FDiv(FMul(Int2F(((2 * 100) \div 5 + 2) * power), atk_real), def_real),
                Int2F(50))) + 2

_estimate_damage(move, attacker, defender, b, is_own_attack, random_roll) ==
    IF move.id = None \/ move.base_power = 0 THEN Zero
    ELSE
    LET is_physical == move.category = "physical"
        move_type == move.type
        atk_stat_key == IF is_physical THEN "atk" ELSE "spa"
        atk_real == FMul(_stat_at_100(Get(attacker.base_stats, atk_stat_key, 50), FALSE),
                         _boost_multiplier(Get(attacker.boosts, atk_stat_key, 0)))
        def_stat_key == IF is_physical THEN "def" ELSE "spd"
        def_real == FMul(_stat_at_100(Get(defender.base_stats, def_stat_key, 50), FALSE),
                         _boost_multiplier(Get(defender.boosts, def_stat_key, 0)))
        effectiveness == _type_effectiveness(move_type, defender)
        same_type == move_type \in Range(attacker.types)
        atk_item == clean(Get(attacker, "item", None))
        item_atk_mult == get_attack_item_mult(atk_item, is_physical, move_type,
                                              effectiveness)
        def_item == clean(Get(defender, "item", None))
        item_def_div == get_defense_item_divisor(def_item, is_physical, move_type)
        weather_mult == _get_weather_multiplier(move_type, b)
        terrain_mult == _get_terrain_multiplier(move_type, b)
        screen_div == _get_screen_divisor(b, is_physical, is_own_attack)
        guts_active == clean(Get(attacker, "ability", None)) = "guts"
        burn_mult == IF is_physical /\ attacker.status = "brn" /\ ~guts_active
                     THEN <<1, 2>> ELSE One
        base_damage == BaseDamage(move.base_power, atk_real, def_real)
        def_hp_approx == _stat_at_100(Get(defender.base_stats, "hp", 50), TRUE)
        \* the rest of the function, given the tuple of _get_ability_multipliers
        With(ab) ==
            LET stab == IF ab.stab_override # NoOverride
                        THEN (IF ab.stab_override = <<3, 2>> \/ same_type
                              THEN ab.stab_override ELSE One)
                        ELSE (IF same_type THEN <<3, 2>> ELSE One)
                damage ==
                    FDiv(FDiv(FDiv(
                        FMul(FMul(FMul(FMul(FMul(FMul(FMul(FMul(
                            Int2F(base_damage), weather_mult), random_roll), stab),
                            effectiveness), burn_mult), item_atk_mult), ab.atk_mult),
                            terrain_mult),
                        ab.def_mult), item_def_div), screen_div)
            IN  IF ab.immune THEN Zero
                ELSE IF effectiveness = Zero THEN Zero
                ELSE FMin(FMax(FDiv(damage, def_hp_approx), Zero), One)
    IN  With(_get_ability_multipliers(attacker, defender, move))

\* max of a non-empty set of fractions, and 0.0 for the empty set
FMaxOf(S) == IF S = {} THEN Zero ELSE CHOOSE x \in S : \A y \in S : FLeq(y, x)

\* the no-known-move estimate of _best_damage_vs for one attacker type
FallbackDamage(t, attacker, defender, roll) ==
    LET atk_base == IF Get(attacker.base_stats, "atk", 80) >= Get(attacker.base_stats, "spa", 80)
                    THEN Get(attacker.base_stats, "atk", 80)
                    ELSE Get(attacker.base_stats, "spa", 80)
        def_base == IF Get(defender.base_stats, "def", 80) <= Get(defender.base_stats, "spd", 80)
                    THEN Get(defender.base_stats, "def", 80)
                    ELSE Get(defender.base_stats, "spd", 80)
        atk_real == _stat_at_100(atk_base, FALSE)
        def_real == _stat_at_100(def_base, FALSE)
        def_hp == _stat_at_100(Get(defender.base_stats, "hp", 80), TRUE)
        eff == _type_effectiveness(t, defender)
        base_dmg == BaseDamage(80, atk_real, def_real)
        dmg == FMul(FMul(FMul(Int2F(base_dmg), roll), <<3, 2>>), eff)
    IN  FMin(FDiv(dmg, def_hp), One)

_best_damage_vs(attacker, defender, b, is_own_attack, roll) ==
    IF attacker.moves # <<>>
    THEN FMaxOf({_estimate_damage(attacker.moves[k], attacker, defender, b,
                                   is_own_attack, roll) :
                    k \in {j \in DOMAIN attacker.moves : attacker.moves[j].base_power > 0}})
    ELSE FMaxOf({FallbackDamage(attacker.types[k], attacker, defender, roll) :
                    k \in {j \in DOMAIN attacker.types :
                              /\ attacker.types[j] # None
                              /\ _type_effectiveness(attacker.types[j], defender) # Zero}})

\* x < 1e-8
FTiny(x) == x[1] <= (x[2] - 1) \div 100000000

\* a probability without interpolation: 1.0 as soon as the maximum roll kills
KoAtMaximumRoll(attacker, defender, b, is_own_attack) ==
    IF FLeq(defender.current_hp_fraction,
            _best_damage_vs(attacker, defender, b, is_own_attack, One))
    THEN One ELSE Zero

_ko_probability(attacker, defender, b, is_own_attack) ==
    LET hp_curr == defender.current_hp_fraction
        \* the interpolation between the two rolls
        Between(dmg_min, dmg_max) ==
            LET damage_range == FSub(dmg_max, dmg_min)
            IN  IF FLeq(hp_curr, dmg_min) THEN One
                ELSE IF FLess(dmg_max, hp_curr) THEN Zero
                ELSE IF FTiny(damage_range) THEN Zero
                ELSE FMin(FMax(FDiv(FSub(dmg_max, hp_curr), damage_range), Zero), One)
    IN  Between(_best_damage_vs(attacker, defender, b, is_own_attack, <<17, 20>>),
                _best_damage_vs(attacker, defender, b, is_own_attack, One))

_real_speed(pokemon, b) ==
    LET spe_real == FMul(_stat_at_100(Get(pokemon.base_stats, "spe", 50), FALSE),
                         _boost_multiplier(Get(pokemon.boosts, "spe", 0)))
        ability == clean(Get(pokemon, "ability", None))
        par == IF pokemon.status = "par" /\ ability # "quickfeet"
               THEN FMul(spe_real, <<1, 2>>) ELSE spe_real
        item == clean(Get(pokemon, "item", None))
        with_item == FMul(par, get_speed_item_mult(item))
    IN  IF Truthy(ability)
        THEN FMul(with_item,
                  get_speed_ability_mult(ability, Range(b.weather), Range(b.fields),
                                         pokemon.status # None, FALSE))
        ELSE with_item

---------------------------------------------------------------------------
(* Analisis de combate y de cambios *)

\* index of the first bucket within 0.01 of eff, default 3 (x1)
BucketIndex(eff) ==
    LET near == {j \in DOMAIN EFFECTIVENESS_BUCKETS :
                    LET diff == FSub(eff, EFFECTIVENESS_BUCKETS[j])
                    IN  FLess(<<Abs(diff[1]), diff[2]>>, <<1, 100>>)}
    IN  IF near = {} THEN 3 ELSE (CHOOSE j \in near : \A k \in near : j <= k) - 1

\* the 8 entries of one own move slot against the opposing active Pokemon
MoveAnalysis(move, own, opp, b) ==
    IF move.id # None /\ opp.name # None
    THEN LET eff == _type_effectiveness(move.type, opp)
             dmg == _estimate_damage(move, own, opp, b, TRUE, <<37, 40>>)
         IN  [i \in 1 .. 8 |->
                IF i <= 6 THEN (IF i = BucketIndex(eff) + 1 THEN One ELSE Zero)
                ELSE IF i = 7 THEN dmg
                ELSE Bool2F(move.base_power = 0)]
    ELSE Zeros(8)

\* sum of a sequence of fractions from position k on
RECURSIVE FSumFrom(_, _)
FSumFrom(xs, k) == IF k > Len(xs) THEN Zero ELSE FAdd(xs[k], FSumFrom(xs, k + 1))

\* float(np.mean(effs)) if effs else 1.0, over the damaging moves
MeanEffectiveness(moves, opp) ==
    LET damaging == SelectSeq(moves, LAMBDA m : m.base_power > 0)
        effs == [k \in DOMAIN damaging |-> _type_effectiveness(damaging[k].type, opp)]
    IN  IF effs = <<>> THEN One ELSE FDiv(FSumFrom(effs, 1), Int2F(Len(effs)))

\* the 4 global entries of the combat analysis
GlobalAnalysis(own, opp, b) ==
    IF opp.name # None
    THEN <<Bool2F(FLess(_real_speed(opp, b), _real_speed(own, b))),
           _ko_probability(opp, own, b, FALSE),
           _ko_probability(own, opp, b, TRUE),
           FMin(FDiv(MeanEffectiveness(own.moves, opp), Int2F(4)), One)>>
    ELSE Zeros(4)

\* 4 moves x 8 + 4 globales = 36
_encode_combat_analysis(own, opp, b) ==
    Concat([i \in 1 .. N_MOVES |-> MoveAnalysis(MoveAt(own.moves, i - 1), own, opp, b)])
    \o GlobalAnalysis(own, opp, b)

\* next((t for t in opp_active.types if t is not None), None)
PrimaryType(pokemon) ==
    LET known == {k \in DOMAIN pokemon.types : pokemon.types[k] # None} IN
    IF known = {} THEN None
    ELSE pokemon.types[CHOOSE k \in known : \A j \in known : k <= j]

\* the product of TYPE_CHART[opp_primary_type][t] over the types of poke
RECURSIVE ResistFrom(_, _, _)
ResistFrom(primary, types, k) ==
    IF k > Len(types) THEN One
    ELSE LET rest == ResistFrom(primary, types, k + 1) IN
         IF types[k] # None /\ primary \in Range(TYPES)
         THEN FMul((IF types[k] \in Range(TYPES)
                    THEN TYPE_CHART(primary, types[k]) ELSE One), rest)
         ELSE rest

\* the 6 entries of one reserve slot against the opposing active Pokemon
SwitchEntries(poke, opp_active, b) ==
    IF poke.name = None \/ poke.fainted THEN Zeros(6)
    ELSE LET primary == PrimaryType(opp_active)
             resist_mult == IF primary # None
                            THEN ResistFrom(primary, poke.types, 1) ELSE One
         IN  <<_best_damage_vs(poke, opp_active, b, TRUE, <<37, 40>>),
               Bool2F(primary # None /\ FLeq(resist_mult, <<1, 2>>)),
               Bool2F(primary # None /\ resist_mult = Zero),
               Bool2F(FLess(_real_speed(opp_active, b), _real_speed(poke, b))),
               poke.current_hp_fraction,
               FSub(One, _ko_probability(opp_active, poke, b, FALSE))>>

\* 5 reservas x 6 dims = 30
_encode_switch_analysis(reserve_pokemon, opp_active, b) ==
    IF opp_active.name = None THEN Zeros(30)
    ELSE Concat([i \in 1 .. 5 |->
                    IF i - 1 >= Len(reserve_pokemon) THEN Zeros(6)
                    ELSE SwitchEntries(reserve_pokemon[i], opp_active, b)])

---------------------------------------------------------------------------
(* encode_battle *)

_active_pokemon_size == 1 + 18 + 7 + 7 + 5 + (N_MOVES * 25)

_combat_analysis_size == N_MOVES * 8 + 4

_switch_analysis_size == 5 * 6

get_observation_size ==
    _active_pokemon_size + _combat_analysis_size + _switch_analysis_size
    + 5 * 20 + _active_pokemon_size + 5 * 20 + (9 + 5 + 3 + 3 + 4 + 4)

\* battle.active_pokemon / battle.opponent_active_pokemon: the member of the
\* team whose active flag is set, or None
ActiveOf(team) ==
    LET on == {k \in DOMAIN team : team[k].active} IN
    IF on = {} THEN NoPokemon ELSE team[CHOOSE k \in on : \A j \in on : k <= j]

\* [p for p in team.values() if not p.active]
NotActive(team) == SelectSeq(team, LAMBDA p : ~p.active)

\* own_team[i] if i < len(own_team) else None   (i 0-based)
ReserveAt(reserve, i) == IF i < Len(reserve) THEN reserve[i + 1] ELSE NoPokemon

encode_battle(b) ==
    LET own_active == ActiveOf(b.team)
        opp_active == ActiveOf(b.opponent_team)
        own_team == NotActive(b.team)
        opp_team == NotActive(b.opponent_team)
        reserve_list == [i \in 1 .. 5 |-> ReserveAt(own_team, i - 1)]
    IN  (IF own_active.name # None
         THEN _encode_active_pokemon(own_active, TRUE)
         ELSE Zeros(_active_pokemon_size))
        \o (IF own_active.name # None /\ opp_active.name # None
            THEN _encode_combat_analysis(own_active, opp_active, b)
            ELSE Zeros(_combat_analysis_size))
        \o (IF opp_active.name # None
            THEN _encode_switch_analysis(reserve_list, opp_active, b)
            ELSE Zeros(_switch_analysis_size))
        \o Concat([i \in 1 .. 5 |-> _encode_reserve_pokemon(ReserveAt(own_team, i - 1))])
        \o (IF opp_active.name # None
            THEN _encode_active_pokemon(opp_active, FALSE)
            ELSE Zeros(_active_pokemon_size))
        \o Concat([i \in 1 .. 5 |-> _encode_reserve_pokemon(ReserveAt(opp_team, i - 1))])
        \o _encode_field(b)


---------------------------------------------------------------------------
(* Encoder snapshots *)

Stats(hp, atk, def, spa, spd, spe) ==
    [hp |-> hp, atk |-> atk, def |-> def, spa |-> spa, spd |-> spd, spe |-> spe]

NoBoosts ==
    [atk |-> 0, def |-> 0, spa |-> 0, spd |-> 0, spe |-> 0, accuracy |-> 0, evasion |-> 0]

Hits(pct) == [always |-> FALSE, value |-> Int2F(pct)]

AlwaysHits == [always |-> TRUE, value |-> Zero]

Mv(id, type, category, power, accuracy, pp, max_pp) ==
    [id |-> id, type |-> type, category |-> category, base_power |-> power,
     accuracy |-> accuracy, current_pp |-> pp, max_pp |-> max_pp]

Mon(name, types, hp, status, boosts, stats, moves) ==
    [name |-> name, active |-> FALSE, current_hp_fraction |-> hp, types |-> types,
     status |-> status, boosts |-> boosts, base_stats |-> stats, moves |-> moves,
     fainted |-> (status = "fnt"), ability |-> None, item |-> None]

\* the own roster, in roster order; the members know 5, 2, 0, 4, 1, 3, 4, 0
\* moves
OwnDex ==
    <<Mon("venusaur", <<"grass", "poison">>, One, None, NoBoosts,
          Stats(80, 82, 83, 100, 100, 80),
          <<Mv("gigadrain", "grass", "special", 75, Hits(100), 10, 16),
            Mv("sludgebomb", "poison", "special", 90, Hits(100), 16, 16),
            Mv("earthquake", "ground", "physical", 100, Hits(100), 0, 16),
            Mv("synthesis", "grass", "status", 0, AlwaysHits, 8, 8),
            Mv("sleeppowder", "grass", "status", 0, Hits(75), 24, 24)>>),
      Mon("charizard", <<"fire", "flying">>, <<1, 2>>, "brn",
          [NoBoosts EXCEPT !.atk = 2, !.spe = -1],
          Stats(78, 84, 78, 109, 85, 100),
          <<Mv("flamethrower", "fire", "special", 90, Hits(100), 24, 24),
            Mv("dragonclaw", "dragon", "physical", 80, Hits(100), 24, 24)>>),
      Mon("blastoise", <<"water", None>>, <<3, 4>>, "par", NoBoosts,
          Stats(79, 83, 100, 85, 105, 78), <<>>),
      Mon("pikachu", <<"electric", None>>, <<1, 4>>, None,
          [NoBoosts EXCEPT !.spa = 6, !.def = -6, !.evasion = 1],
          Stats(35, 55, 40, 50, 50, 90),
          <<Mv("thunderbolt", "electric", "special", 90, Hits(100), 24, 24),
            Mv("quickattack", "normal", "physical", 40, Hits(100), 48, 48),
            Mv("thunderwave", "electric", "status", 0, Hits(90), 32, 32),
            Mv("surf", "water", "special", 90, Hits(100), 24, 0)>>),
      Mon("snorlax", <<"normal", None>>, Zero, "fnt", NoBoosts,
          Stats(160, 110, 65, 65, 110, 30),
          <<Mv("rest", "psychic", "status", 0, AlwaysHits, 8, 8)>>),
      Mon("gengar", <<"ghost", "poison">>, One, "slp", NoBoosts,
          Stats(60, 65, 60, 130, 75, 110),
          <<Mv("shadowball", "ghost", "special", 80, Hits(100), 24, 24),
            Mv("focusblast", "fighting", "special", 120, Hits(70), 8, 8),
            Mv("willowisp", "fire", "status", 0, Hits(85), 24, 24)>>),
      Mon("garchomp", <<"dragon", "ground">>, <<9, 10>>, "tox", NoBoosts,
          Stats(108, 130, 95, 80, 85, 102),
          <<Mv("earthquake", "ground", "physical", 100, Hits(100), 16, 16),
            Mv("outrage", "dragon", "physical", 120, Hits(100), 16, 16),
            Mv("stoneedge", "rock", "physical", 100, Hits(80), 8, 8),
            Mv("swordsdance", "normal", "status", 0, AlwaysHits, 32, 32)>>),
      Mon("eevee", <<"normal", None>>, One, "psn", NoBoosts,
          Stats(55, 55, 50, 45, 65, 55), <<>>)>>

\* the opponent's roster as revealed so far; the members have 2, 0, 1, 0, 5,
\* 0, 0, 0 revealed moves
OppDex ==
    <<Mon("gyarados", <<"water", "flying">>, <<4, 5>>, None,
          [NoBoosts EXCEPT !.atk = 1, !.spe = 1],
          Stats(95, 125, 79, 60, 100, 81),
          <<Mv("waterfall", "water", "physical", 80, Hits(100), 24, 24),
            Mv("dragondance", "dragon", "status", 0, AlwaysHits, 32, 32)>>),
      Mon("alakazam", <<"psychic", None>>, One, None, NoBoosts,
          Stats(55, 50, 45, 135, 95, 120), <<>>),
      Mon("steelix", <<"steel", "ground">>, <<1, 10>>, "brn", NoBoosts,
          Stats(75, 85, 200, 55, 65, 30),
          <<Mv("toxic", "poison", "status", 0, Hits(90), 16, 16)>>),
      Mon("gastly", <<"ghost", "poison">>, Zero, "fnt", NoBoosts,
          Stats(30, 35, 30, 100, 35, 80), <<>>),
      Mon("dragonite", <<"dragon", "flying">>, One, "frz", NoBoosts,
          Stats(91, 134, 95, 100, 100, 80),
          <<Mv("extremespeed", "normal", "physical", 80, Hits(100), 8, 8),
            Mv("earthquake", "ground", "physical", 100, Hits(100), 16, 16),
            Mv("firepunch", "fire", "physical", 75, Hits(100), 24, 24),
            Mv("roost", "flying", "status", 0, AlwaysHits, 8, 8),
            Mv("icebeam", "ice", "special", 90, Hits(100), 16, 16)>>),
      Mon("clefable", <<"fairy", None>>, <<1, 3>>, None, NoBoosts,
          Stats(95, 70, 73, 95, 90, 60), <<>>),
      Mon("tyranitar", <<"rock", "dark">>, One, None, NoBoosts,
          Stats(100, 134, 110, 95, 100, 61), <<>>),
      Mon("jolteon", <<"electric", None>>, One, None, NoBoosts,
          Stats(65, 65, 60, 110, 95, 130), <<>>)>>

\* the first n members of a roster, the a-th of them active (0 = none)
Roster(dex, n, a) == [k \in 1 .. n |-> [dex[k] EXCEPT !.active = (k = a)]]

NoSides == [c \in {} |-> 0]

\* the field states of the snapshots: weather, fields and side conditions
FieldStates ==
    {[weather |-> <<>>, fields |-> <<>>,
      side_conditions |-> NoSides, opponent_side_conditions |-> NoSides],
     [weather |-> <<"sunnyday">>, fields |-> <<"grassy_terrain">>,
      side_conditions |-> [c \in {"stealth_rock", "spikes"} |->
                              IF c = "spikes" THEN 2 ELSE 1],
      opponent_side_conditions |-> [c \in {"reflect"} |-> 1]],
     [weather |-> <<"raindance">>, fields |-> <<"trick_room", "electric_terrain">>,
      side_conditions |-> [c \in {"aurora_veil", "sticky_web"} |-> 1],
      opponent_side_conditions |-> [c \in {"light_screen", "toxic_spikes", "spikes"} |->
                                       IF c = "spikes" THEN 3 ELSE 1]],
     [weather |-> <<"unknown">>, fields |-> <<"gravity">>,
      side_conditions |-> [c \in {"tailwind"} |-> 1],
      opponent_side_conditions |-> [c \in {"stealth_rock", "toxic_spikes"} |->
                                       IF c = "toxic_spikes" THEN 2 ELSE 1]]}

TeamsOf(dex) ==
    UNION {{Roster(dex, n, a) : a \in 0 .. n} : n \in 0 .. MaxRoster}

EncSnapshots ==
    {[team |-> t,
      opponent_team |-> o,
      weather |-> f.weather,
      fields |-> f.fields,
      side_conditions |-> f.side_conditions,
      opponent_side_conditions |-> f.opponent_side_conditions] :
        t \in TeamsOf(OwnDex), o \in TeamsOf(OppDex), f \in FieldStates}

IdleSnapshot ==
    [team |-> <<>>, opponent_team |-> <<>>, weather |-> <<>>, fields |-> <<>>,
     side_conditions |-> NoSides, opponent_side_conditions |-> NoSides]

\* no training loop is running
NoTraining == game = <<>> /\ tracker = <<>> /\ logger = <<>> /\ learner = <<>>

NoArgs == [fn |-> "none"]

NoResult == [fn |-> "none"]

IdleBattle == Snapshot([n |-> 0, active |-> 0, avail |-> {}],
                       [k |-> 0, avail |-> <<>>], NoFlags, FALSE)

---------------------------------------------------------------------------
(* The decision point: observe, mask, translate *)

Init ==
    /\ battle \in Snapshots
    /\ mask = NoMask
    /\ orders = NoOrders
    /\ pc = "observed"
    /\ snapshot = IdleSnapshot
    /\ obs = <<>>
    /\ epc = "idle"
    /\ args = NoArgs
    /\ result = NoResult
    /\ fpc = "idle"
    /\ calls = <<>>
    /\ NoTraining

\* _mask_fn: the mask of the current battle
GetActionMask ==
    /\ pc = "observed"
    /\ mask' = get_action_mask(battle)
    /\ pc' = "masked"
    /\ UNCHANGED <<battle, orders, snapshot, obs, epc, args, result, fpc, calls, training>>

\* the translator applied to every index of the action space
ActionToOrder ==
    /\ pc = "masked"
    /\ orders' = [i \in Actions |-> action_to_order(i, battle)]
    /\ pc' = "translated"
    /\ UNCHANGED <<battle, mask, snapshot, obs, epc, args, result, fpc, calls, training>>

Next == GetActionMask \/ ActionToOrder

Spec == Init /\ [][Next]_vars

---------------------------------------------------------------------------
(* The observation: observe, encode *)

InitEnc ==
    /\ snapshot \in EncSnapshots
    /\ obs = <<>>
    /\ epc = "observed"
    /\ battle = IdleBattle
    /\ mask = NoMask
    /\ orders = NoOrders
    /\ pc = "idle"
    /\ args = NoArgs
    /\ result = NoResult
    /\ fpc = "idle"
    /\ calls = <<>>
    /\ NoTraining

\* embed_battle: the observation vector of the current battle
EmbedBattle ==
    /\ epc = "observed"
    /\ obs' = encode_battle(snapshot)
    /\ epc' = "encoded"
    /\ UNCHANGED <<snapshot, battle, mask, orders, pc, args, result, fpc, calls, training>>

NextEnc == EmbedBattle

SpecEnc == InitEnc /\ [][NextEnc]_vars

---------------------------------------------------------------------------
(* Repeated calls on one battle: embed_battle and _mask_fn in any order *)

\* position of the active member of a roster, 0 if there is none
ActiveIndex(team) ==
    LET on == {k \in DOMAIN team : team[k].active} IN
    IF on = {} THEN 0 ELSE CHOOSE k \in on : \A j \in on : k <= j

\* the battle as get_action_mask reads it: the roster by name, the members
\* that can be switched in, the active member's moves and those with PP left
BattleOf(s, f) ==
    LET a == ActiveIndex(s.team)
        own == IF a = 0 THEN <<>> ELSE s.team[a].moves
        ids == [k \in DOMAIN own |-> own[k].id]
        usable == {k \in DOMAIN own : own[k].current_pp > 0}
        bench == {k \in DOMAIN s.team : ~s.team[k].active /\ ~s.team[k].fainted}
    IN  [team |-> [k \in DOMAIN s.team |-> s.team[k].name],
         active |-> a,
         available_switches |-> NamesAt([k \in DOMAIN s.team |-> s.team[k].name],
                                        Descending(bench)),
         moves |-> ids,
         available_moves |-> NamesAt(ids, Descending(usable)),
         can_mega_evolve |-> f.mega,
         can_z_move |-> f.z,
         can_dynamax |-> f.dynamax,
         can_tera |-> f.tera,
         available_z_moves |-> NamesAt(ids, Descending(usable)),
         wait |-> FALSE]

AllFlags == [mega |-> TRUE, z |-> TRUE, dynamax |-> TRUE, tera |-> TRUE]

\* the battles on which the calls are repeated: small rosters on both sides
CallSnapshots ==
    {b \in EncSnapshots : Len(b.team) <= MaxTeam /\ Len(b.opponent_team) <= MaxTeam}

InitCalls ==
    /\ snapshot \in CallSnapshots
    /\ \E f \in {NoFlags, AllFlags} : battle = BattleOf(snapshot, f)
    /\ calls = <<>>
    /\ NoTraining
    /\ obs = <<>>
    /\ epc = "idle"
    /\ mask = NoMask
    /\ orders = NoOrders
    /\ pc = "idle"
    /\ args = NoArgs
    /\ result = NoResult
    /\ fpc = "idle"

\* embed_battle called once more on the same battle
CallEmbedBattle ==
    /\ Len(calls) < MaxCalls
    /\ calls' = Append(calls, [fn |-> "encode_battle", out |-> encode_battle(snapshot)])
    /\ UNCHANGED <<battle, mask, orders, pc, snapshot, obs, epc, args, result, fpc, training>>

\* _mask_fn called once more on the same battle
CallMaskFn ==
    /\ Len(calls) < MaxCalls
    /\ calls' = Append(calls, [fn |-> "get_action_mask", out |-> get_action_mask(battle)])
    /\ UNCHANGED <<battle, mask, orders, pc, snapshot, obs, epc, args, result, fpc, training>>

NextCalls == CallEmbedBattle \/ CallMaskFn

SpecCalls == InitCalls /\ [][NextCalls]_vars

---------------------------------------------------------------------------
(* Calls of the damage estimate and of the functions it is built from:   *)
(* args is the argument list of one call, result what the call returned. *)

\* a Pokemon with a revealed ability and a revealed item
Holding(pokemon, ability, item) == [pokemon EXCEPT !.ability = ability, !.item = item]

Boosted(pokemon, stat, n) == [pokemon EXCEPT !.boosts = [@ EXCEPT ![stat] = n]]

AttackMoves ==
    {Mv("flamethrower", "fire", "special", 90, Hits(100), 24, 24),
     Mv("surf", "water", "special", 90, Hits(100), 24, 24),
     Mv("earthquake", "ground", "physical", 100, Hits(100), 16, 16),
     Mv("thunderbolt", "electric", "special", 90, Hits(100), 24, 24),
     Mv("shadowball", "ghost", "special", 80, Hits(100), 24, 24),
     Mv("bodyslam", "normal", "physical", 85, Hits(100), 24, 24),
     Mv("machpunch", "fighting", "physical", 40, Hits(100), 48, 48),
     Mv("crunch", "dark", "physical", 80, Hits(100), 24, 24),
     Mv("hypervoice", "normal", "special", 90, Hits(100), 16, 16),
     Mv("flareblitz", "fire", "physical", 120, Hits(100), 24, 24),
     Mv("aurasphere", "fighting", "special", 80, AlwaysHits, 32, 32),
     Mv("energyball", "grass", "special", 90, Hits(100), 16, 16),
     Mv("xscissor", "bug", "physical", 80, Hits(100), 24, 24),
     Mv("dragonclaw", "dragon", "physical", 80, Hits(100), 24, 24),
     Mv("ironhead", "steel", "physical", 80, Hits(100), 24, 24),
     Mv("psychic", "psychic", "special", 90, Hits(100), 16, 16),
     Mv("stoneedge", "rock", "physical", 100, Hits(80), 8, 8),
     Mv("icebeam", "ice", "special", 90, Hits(100), 16, 16),
     Mv("moonblast", "fairy", "special", 95, Hits(100), 24, 24),
     Mv("sludgebomb", "poison", "special", 90, Hits(100), 16, 16),
     Mv("bravebird", "flying", "physical", 120, Hits(100), 24, 24)}

StatusMoves ==
    {Mv("swordsdance", "normal", "status", 0, AlwaysHits, 32, 32),
     Mv("toxic", "poison", "status", 0, Hits(90), 16, 16)}

\* the moves of the calls: absent, without base power, attacking
CallMoves == {NoMove} \cup StatusMoves \cup AttackMoves

\* a short list of moves for the calls that vary something else
FewMoves ==
    {m \in CallMoves : m.id \in {None, "swordsdance", "flamethrower", "earthquake",
                                 "thunderbolt"}}

Attackers ==
    {Mon("charizard", <<"fire", "flying">>, One, None, NoBoosts,
         Stats(78, 84, 78, 109, 85, 100), <<>>),
     Mon("machamp", <<"fighting">>, One, None, NoBoosts,
         Stats(90, 130, 80, 65, 85, 55), <<>>),
     Mon("porygon", <<"normal", None>>, One, None, NoBoosts,
         Stats(65, 60, 70, 85, 75, 40), <<>>)}

\* the attacker in the states the ability chain looks at
AttackerStates(a) ==
    {[a EXCEPT !.current_hp_fraction = c[1], !.status = c[2]] :
        c \in {<<One, None>>, <<<<1, 4>>, "brn">>, <<One, "tox">>}}

Defenders ==
    {Mon("gyarados", <<"water", "flying">>, One, None, NoBoosts,
         Stats(95, 125, 79, 60, 100, 81), <<>>),
     Mon("gengar", <<"ghost", "poison">>, One, None, NoBoosts,
         Stats(60, 65, 60, 130, 75, 110), <<>>),
     Mon("ferrothorn", <<"grass", "steel">>, One, None, NoBoosts,
         Stats(74, 94, 131, 54, 116, 20), <<>>),
     Mon("garchomp", <<"dragon", "ground">>, One, None, NoBoosts,
         Stats(108, 130, 95, 80, 85, 102), <<>>),
     Mon("togekiss", <<"fairy", "flying">>, One, None, NoBoosts,
         Stats(85, 50, 95, 120, 115, 80), <<>>),
     Mon("blissey", <<"normal">>, One, None, NoBoosts,
         Stats(255, 10, 10, 75, 135, 55), <<>>),
     Mon("tyranitar", <<"rock", "dark">>, One, None, NoBoosts,
         Stats(100, 134, 110, 95, 100, 61), <<>>)}

FewDefenders == {d \in Defenders : d.name \in {"gyarados", "ferrothorn"}}

DefenderStates(d) ==
    {[d EXCEPT !.current_hp_fraction = c[1], !.status = c[2]] :
        c \in {<<One, None>>, <<<<1, 2>>, "par">>}}

\* a defender that carries a reference to its battle (defender._battle)
InBattle(d, b) == [x \in DOMAIN d \cup {"_battle"} |-> IF x = "_battle" THEN b ELSE d[x]]

\* identifiers no registry and no function knows, and spellings that are
\* not in normal form
UnknownNames == {"illuminate", "berryjuice", ""}

AttackerAbilityNames ==
    {None} \cup UnknownNames \cup DOMAIN ATTACK_ABILITIES \cup DOMAIN SPEED_ABILITIES
    \cup {"gorillatactics", "flareboost", "punchingglove", "GUTS", "Gorilla Tactics"}

DefenderAbilityNames ==
    {None} \cup UnknownNames \cup DOMAIN DEFENSE_ABILITIES \cup {"Thick Fat", "Dry_Skin"}

AttackerItemNames ==
    {None} \cup UnknownNames \cup DOMAIN ATTACK_ITEMS \cup DOMAIN TYPE_BOOST_ITEMS
    \cup {"Life Orb", "Choice Band", "assaultvest"}

DefenderItemNames ==
    {None} \cup UnknownNames \cup DOMAIN DEFENSE_ITEMS \cup {"Occa_Berry", "lifeorb"}

Screens == {"reflect", "light_screen", "aurora_veil"}

\* a side with the given conditions, each one layer
Side(conds) == [c \in conds |-> 1]

Field(weather, fields, own, opp) ==
    [weather |-> weather, fields |-> fields,
     side_conditions |-> Side(own), opponent_side_conditions |-> Side(opp)]

ClearField == Field(<<>>, <<>>, {}, {})

Climates ==
    {<<<<>>, <<>>>>, <<<<"sunnyday">>, <<"grassy_terrain">>>>,
     <<<<"raindance">>, <<"electric_terrain">>>>, <<<<"sandstorm">>, <<"misty_terrain">>>>,
     <<<<"desolateland">>, <<"psychic_terrain", "trick_room">>>>,
     <<<<"primordialsea">>, <<"gravity">>>>, <<<<"snow">>, <<>>>>}

\* every pair of screen sets, under every climate
ScreenFields ==
    {Field(c[1], c[2], own, opp) :
        c \in {<<<<"raindance">>, <<"electric_terrain">>>>},
        own \in SUBSET Screens, opp \in SUBSET Screens}

ClimateFields ==
    {Field(c[1], c[2], {"stealth_rock"}, {"spikes"}) : c \in Climates}

\* random_roll: minimum, average, maximum
Rolls == {<<17, 20>>, <<37, 40>>, One}

EstimateCall(move, attacker, defender, b, is_own_attack, random_roll) ==
    [fn |-> "_estimate_damage", move |-> move, attacker |-> attacker,
     defender |-> defender, battle |-> b, is_own_attack |-> is_own_attack,
     random_roll |-> random_roll]

\* the calls that vary the ability of the attacker
AttackerAbilityCalls ==
    {EstimateCall(m, Holding(s, ab, None), d, ClearField, TRUE, One) :
        m \in CallMoves, ab \in AttackerAbilityNames,
        s \in UNION {AttackerStates(a) : a \in {x \in Attackers : x.name = "charizard"}},
        d \in {x \in Defenders : x.name = "gyarados"}}

\* the calls that vary the ability of the defender
DefenderAbilityCalls ==
    {EstimateCall(m, a, Holding(s, ab, None), ClearField, TRUE, One) :
        m \in CallMoves, ab \in DefenderAbilityNames,
        a \in {x \in Attackers : x.name = "machamp"},
        s \in UNION {DefenderStates(d) : d \in {x \in Defenders : x.name = "ferrothorn"}}}
    \cup
    {EstimateCall(m, a, InBattle(Holding(d, "grasspelt", None), b), b, TRUE, One) :
        m \in FewMoves, a \in {x \in Attackers : x.name = "machamp"}, d \in FewDefenders,
        b \in {ClearField, Field(<<>>, <<"grassy_terrain">>, {}, {})}}

\* the calls that vary the items
ItemCalls ==
    {EstimateCall(m, Holding(a, None, it), d, ClearField, TRUE, <<37, 40>>) :
        m \in CallMoves, it \in AttackerItemNames,
        a \in {x \in Attackers : x.name = "porygon"},
        d \in {x \in Defenders : x.name = "ferrothorn"}}
    \cup
    {EstimateCall(m, a, Holding(d, None, it), ClearField, FALSE, <<37, 40>>) :
        m \in CallMoves, it \in DefenderItemNames,
        a \in {x \in Attackers : x.name = "charizard"},
        d \in {x \in Defenders : x.name = "ferrothorn"}}

\* the calls that vary the types, the field, the side and the roll
FieldCalls ==
    {EstimateCall(m, a, d, b, own, r) :
        m \in CallMoves, a \in {x \in Attackers : x.name = "porygon"}, d \in Defenders,
        b \in ClimateFields, own \in {TRUE}, r \in {<<17, 20>>}}
    \cup
    {EstimateCall(m, a, d, b, own, r) :
        m \in FewMoves, a \in {x \in Attackers : x.name = "machamp"},
        d \in {x \in Defenders : x.name = "garchomp"},
        b \in ScreenFields, own \in BOOLEAN, r \in {One}}

\* the calls that vary the boosts and the status of both sides
BoostCalls ==
    {EstimateCall(m, Boosted(Boosted([a EXCEPT !.status = st], "atk", n), "spa", n),
                  Boosted(Boosted(d, "def", k), "spd", k), ClearField, TRUE, r) :
        m \in FewMoves, a \in {x \in Attackers : x.name = "machamp"}, st \in {None, "brn"},
        n \in {-6, -1, 0, 2, 6}, d \in FewDefenders, k \in {-6, 0, 1, 6}, r \in Rolls}

\* the calls that combine modifiers of every kind
CombinedCalls ==
    {EstimateCall(m, Holding(Boosted([a EXCEPT !.status = st], "atk", n), aab, ait),
                  Holding(d, dab, dit), b, own, One) :
        m \in FewMoves, a \in {x \in Attackers : x.name = "charizard"},
        st \in {None, "brn"}, n \in {2},
        aab \in {None, "guts", "adaptability"},
        ait \in {None, "lifeorb", "charcoal"},
        d \in {x \in Defenders : x.name \in {"gyarados", "garchomp"}},
        dab \in {None, "levitate", "fluffy", "wonderguard"},
        dit \in {None, "assaultvest"},
        b \in {ClearField, Field(<<"sunnyday">>, <<"grassy_terrain">>, {}, {"reflect"}),
               Field(<<"raindance">>, <<>>, {"aurora_veil"}, {"light_screen"})},
        own \in {TRUE}}

EstimateCalls ==
    AttackerAbilityCalls \cup DefenderAbilityCalls \cup ItemCalls \cup FieldCalls
    \cup BoostCalls \cup CombinedCalls

\* the calls of _get_screen_divisor
ScreenCalls ==
    {[fn |-> "_get_screen_divisor", battle |-> b, is_physical |-> p, is_own_attack |-> own] :
        b \in ScreenFields, p \in BOOLEAN, own \in BOOLEAN}

InitDamage ==
    /\ args \in EstimateCalls \cup ScreenCalls
    /\ result = NoResult
    /\ fpc = "called"
    /\ battle = IdleBattle
    /\ mask = NoMask
    /\ orders = NoOrders
    /\ pc = "idle"
    /\ snapshot = IdleSnapshot
    /\ obs = <<>>
    /\ epc = "idle"
    /\ calls = <<>>
    /\ NoTraining

\* the call returns the estimate
EstimateDamage ==
    /\ fpc = "called"
    /\ args.fn = "_estimate_damage"
    /\ result' = [fn |-> "_estimate_damage",
                  out |-> _estimate_damage(args.move, args.attacker, args.defender,
                                           args.battle, args.is_own_attack,
                                           args.random_roll)]
    /\ fpc' = "returned"
    /\ UNCHANGED <<battle, mask, orders, pc, snapshot, obs, epc, args, calls, training>>

ScreenDivisor ==
    /\ fpc = "called"
    /\ args.fn = "_get_screen_divisor"
    /\ result' = [fn |-> "_get_screen_divisor",
                  out |-> _get_screen_divisor(args.battle, args.is_physical,
                                              args.is_own_attack)]
    /\ fpc' = "returned"
    /\ UNCHANGED <<battle, mask, orders, pc, snapshot, obs, epc, args, calls, training>>

NextDamage == EstimateDamage \/ ScreenDivisor

SpecDamage == InitDamage /\ [][NextDamage]_vars

---------------------------------------------------------------------------
(* Calls of the best-damage search and of the KO probability *)

MoveNamed(id) == CHOOSE m \in CallMoves : m.id = id

\* what an attacker has revealed: nothing, status moves only, attacks
Movesets ==
    {<<>>,
     <<MoveNamed("swordsdance")>>,
     <<MoveNamed("toxic"), MoveNamed("swordsdance")>>,
     <<MoveNamed("swordsdance"), MoveNamed("earthquake")>>,
     <<MoveNamed("flamethrower"), MoveNamed("bodyslam"), MoveNamed("thunderbolt")>>,
     <<MoveNamed("machpunch")>>}

Knowing(pokemon, moves) == [pokemon EXCEPT !.moves = moves]

\* current_hp_fraction of the defender: 1/20 .. 20/20
HpSteps == 20

HpFractions == {Frac(k, HpSteps) : k \in 1 .. HpSteps}

Damaged(pokemon, hp) == [pokemon EXCEPT !.current_hp_fraction = hp]

BestCall(attacker, defender, b, is_own_attack, roll) ==
    [fn |-> "_best_damage_vs", attacker |-> attacker, defender |-> defender,
     battle |-> b, is_own_attack |-> is_own_attack, roll |-> roll]

KoCall(attacker, defender, b, is_own_attack) ==
    [fn |-> "_ko_probability", attacker |-> attacker, defender |-> defender,
     battle |-> b, is_own_attack |-> is_own_attack]

BestCalls ==
    {BestCall(Knowing(Holding(Boosted(a, "atk", n), ab, it), ms), d, b, own, r) :
        a \in Attackers, n \in {0, 2}, ab \in {None, "adaptability"},
        it \in {None, "choiceband"}, ms \in Movesets, d \in Defenders,
        b \in {ClearField, Field(<<"sunnyday">>, <<>>, {"reflect"}, {"light_screen"})},
        own \in BOOLEAN, r \in Rolls}

KoCalls ==
    {KoCall(Knowing(Boosted(Boosted(a, "atk", n), "spa", n), ms), Damaged(d, hp), b, TRUE) :
        a \in Attackers, n \in {-2, 0, 2}, ms \in Movesets, d \in Defenders,
        hp \in HpFractions,
        b \in {ClearField, Field(<<"raindance">>, <<>>, {}, {"aurora_veil"})}}

InitKo ==
    /\ args \in BestCalls \cup KoCalls
    /\ result = NoResult
    /\ fpc = "called"
    /\ battle = IdleBattle
    /\ mask = NoMask
    /\ orders = NoOrders
    /\ pc = "idle"
    /\ snapshot = IdleSnapshot
    /\ obs = <<>>
    /\ epc = "idle"
    /\ calls = <<>>
    /\ NoTraining

BestDamageVs ==
    /\ fpc = "called"
    /\ args.fn = "_best_damage_vs"
    /\ result' = [fn |-> "_best_damage_vs",
                  out |-> _best_damage_vs(args.attacker, args.defender, args.battle,
                                          args.is_own_attack, args.roll)]
    /\ fpc' = "returned"
    /\ UNCHANGED <<battle, mask, orders, pc, snapshot, obs, epc, args, calls, training>>

KoProbability ==
    /\ fpc = "called"
    /\ args.fn = "_ko_probability"
    /\ result' = [fn |-> "_ko_probability",
                  out |-> _ko_probability(args.attacker, args.defender, args.battle,
                                          args.is_own_attack)]
    /\ fpc' = "returned"
    /\ UNCHANGED <<battle, mask, orders, pc, snapshot, obs, epc, args, calls, training>>

NextKo == BestDamageVs \/ KoProbability

SpecKo == InitKo /\ [][NextKo]_vars

---------------------------------------------------------------------------
(* Calls of the type-effectiveness lookup *)

\* a defender of the given types
Typed(types) ==
    Mon("defender", types, One, None, NoBoosts, Stats(80, 80, 80, 80, 80, 80), <<>>)

\* defender.types: one type, one type and None, or two types
TypeLists ==
    {<<t1>> : t1 \in Range(TYPES)}
    \cup {<<t1, t2>> : t1 \in Range(TYPES), t2 \in Range(TYPES) \cup {None}}

ChartCalls ==
    {[fn |-> "_type_effectiveness", move_type |-> t, defender |-> Typed(ts)] :
        t \in Range(TYPES), ts \in TypeLists}

InitChart ==
    /\ args \in ChartCalls
    /\ result = NoResult
    /\ fpc = "called"
    /\ battle = IdleBattle
    /\ mask = NoMask
    /\ orders = NoOrders
    /\ pc = "idle"
    /\ snapshot = IdleSnapshot
    /\ obs = <<>>
    /\ epc = "idle"
    /\ calls = <<>>
    /\ NoTraining

TypeEffectiveness ==
    /\ fpc = "called"
    /\ args.fn = "_type_effectiveness"
    /\ result' = [fn |-> "_type_effectiveness",
                  out |-> _type_effectiveness(args.move_type, args.defender)]
    /\ fpc' = "returned"
    /\ UNCHANGED <<battle, mask, orders, pc, snapshot, obs, epc, args, calls, training>>

NextChart == TypeEffectiveness

SpecChart == InitChart /\ [][NextChart]_vars

---------------------------------------------------------------------------
(* Calls of the numeric building blocks: boost multiplier, base damage *)

\* power = 10, 20 .. 10 * PowerSteps
PowerSteps == 15

Powers == {10 * k : k \in 1 .. PowerSteps}

\* an effective stat = 25, 50 .. 25 * StatSteps, times a boost multiplier
StatSteps == 10

EffectiveStats ==
    {FMul(Int2F(25 * k), _boost_multiplier(b)) : k \in 1 .. StatSteps, b \in {-1, 0, 1}}

BoostStages == -6 .. 6

BaseCalls ==
    {[fn |-> "base_damage", power |-> p, atk_real |-> a, def_real |-> d] :
        p \in Powers, a \in EffectiveStats, d \in EffectiveStats}

BoostCallsOf == {[fn |-> "_boost_multiplier", boost |-> b] : b \in BoostStages}

\* the attacker has revealed no move
UnscoutedCalls ==
    {BestCall(Knowing(a, <<>>), d, ClearField, own, r) :
        a \in Attackers, d \in Defenders, own \in BOOLEAN, r \in Rolls}

InitBase ==
    /\ args \in BaseCalls \cup BoostCallsOf \cup UnscoutedCalls
    /\ result = NoResult
    /\ fpc = "called"
    /\ battle = IdleBattle
    /\ mask = NoMask
    /\ orders = NoOrders
    /\ pc = "idle"
    /\ snapshot = IdleSnapshot
    /\ obs = <<>>
    /\ epc = "idle"
    /\ calls = <<>>
    /\ NoTraining

\* Paso 1 of _estimate_damage: base entera con floors
BaseDamageStep ==
    /\ fpc = "called"
    /\ args.fn = "base_damage"
    /\ result' = [fn |-> "base_damage",
                  out |-> BaseDamage(args.power, args.atk_real, args.def_real)]
    /\ fpc' = "returned"
    /\ UNCHANGED <<battle, mask, orders, pc, snapshot, obs, epc, args, calls, training>>

BoostMultiplier ==
    /\ fpc = "called"
    /\ args.fn = "_boost_multiplier"
    /\ result' = [fn |-> "_boost_multiplier", out |-> _boost_multiplier(args.boost)]
    /\ fpc' = "returned"
    /\ UNCHANGED <<battle, mask, orders, pc, snapshot, obs, epc, args, calls, training>>

NextBase == BaseDamageStep \/ BoostMultiplier \/ BestDamageVs

SpecBase == InitBase /\ [][NextBase]_vars

---------------------------------------------------------------------------
(* Calls of the modifier resolver and of the registry lookups *)

ResolverCall(attacker, defender, move) ==
    [fn |-> "_get_ability_multipliers", attacker |-> attacker, defender |-> defender,
     move |-> move]

\* the resolver is called with the Pokemon and the move of an estimate
ResolverCalls ==
    {ResolverCall(c.attacker, c.defender, c.move) :
        c \in AttackerAbilityCalls \cup DefenderAbilityCalls}

MoveTypes == Range(TYPES) \cup {None}

\* effectiveness: not very effective, neutral, super effective
Effectivenesses == {<<1, 2>>, One, <<2, 1>>}

AttackItemCalls ==
    {[fn |-> "get_attack_item_mult", item_name |-> it, is_physical |-> p,
      move_type |-> t, effectiveness |-> e] :
        it \in AttackerItemNames, p \in BOOLEAN, t \in MoveTypes, e \in Effectivenesses}

DefenseItemCalls ==
    {[fn |-> "get_defense_item_divisor", item_name |-> it, is_physical |-> p,
      move_type |-> t] :
        it \in DefenderItemNames, p \in BOOLEAN, t \in MoveTypes}

SpeedItemNames == {None} \cup UnknownNames \cup DOMAIN SPEED_ITEMS \cup {"choice-scarf"}

SpeedAbilityNames ==
    {None} \cup UnknownNames \cup DOMAIN SPEED_ABILITIES
    \cup {"Swift Swim", "gorillatactics", "runaway"}

SpeedItemCalls == {[fn |-> "get_speed_item_mult", item_name |-> it] : it \in SpeedItemNames}

SpeedAbilityCalls ==
    {[fn |-> "get_speed_ability_mult", ability_name |-> ab, weather |-> Range(c[1]),
      field |-> Range(c[2]), has_status |-> st, item_lost |-> lost] :
        ab \in SpeedAbilityNames, c \in Climates, st \in BOOLEAN, lost \in BOOLEAN}

RealSpeedCalls ==
    {[fn |-> "_real_speed",
      pokemon |-> Boosted(Holding([a EXCEPT !.status = st], ab, it), "spe", n),
      battle |-> b] :
        a \in {x \in Attackers : x.name = "charizard"}, st \in {None, "par"},
        ab \in SpeedAbilityNames, it \in {None, "choicescarf", "ironball", "berryjuice"},
        n \in {0, 1}, b \in ClimateFields}

\* estimates of Pokemon whose ability and item are looked up in no registry
UnlistedEstimateCalls ==
    {EstimateCall(m, Holding([a EXCEPT !.status = st], aab, ait), Holding(d, dab, dit),
                  b, TRUE, One) :
        m \in FewMoves, a \in {x \in Attackers : x.name = "machamp"}, st \in {None, "brn"},
        aab \in UnknownNames \cup {None, "gorillatactics", "flareboost"},
        ait \in UnknownNames \cup {None},
        d \in FewDefenders, dab \in UnknownNames \cup {None}, dit \in UnknownNames \cup {None},
        b \in {ClearField, Field(<<"sunnyday">>, <<"grassy_terrain">>, {}, {"reflect"})}}

InitModifiers ==
    /\ args \in ResolverCalls \cup AttackItemCalls \cup DefenseItemCalls \cup SpeedItemCalls
                \cup SpeedAbilityCalls \cup RealSpeedCalls \cup UnlistedEstimateCalls
    /\ result = NoResult
    /\ fpc = "called"
    /\ battle = IdleBattle
    /\ mask = NoMask
    /\ orders = NoOrders
    /\ pc = "idle"
    /\ snapshot = IdleSnapshot
    /\ obs = <<>>
    /\ epc = "idle"
    /\ calls = <<>>
    /\ NoTraining

AbilityMultipliers ==
    /\ fpc = "called"
    /\ args.fn = "_get_ability_multipliers"
    /\ result' = [fn |-> "_get_ability_multipliers",
                  out |-> _get_ability_multipliers(args.attacker, args.defender, args.move)]
    /\ fpc' = "returned"
    /\ UNCHANGED <<battle, mask, orders, pc, snapshot, obs, epc, args, calls, training>>

AttackItemMult ==
    /\ fpc = "called"
    /\ args.fn = "get_attack_item_mult"
    /\ result' = [fn |-> "get_attack_item_mult",
                  out |-> get_attack_item_mult(args.item_name, args.is_physical,
                                               args.move_type, args.effectiveness)]
    /\ fpc' = "returned"
    /\ UNCHANGED <<battle, mask, orders, pc, snapshot, obs, epc, args, calls, training>>

DefenseItemDivisor ==
    /\ fpc = "called"
    /\ args.fn = "get_defense_item_divisor"
    /\ result' = [fn |-> "get_defense_item_divisor",
                  out |-> get_defense_item_divisor(args.item_name, args.is_physical,
                                                   args.move_type)]
    /\ fpc' = "returned"
    /\ UNCHANGED <<battle, mask, orders, pc, snapshot, obs, epc, args, calls, training>>

SpeedItemMult ==
    /\ fpc = "called"
    /\ args.fn = "get_speed_item_mult"
    /\ result' = [fn |-> "get_speed_item_mult", out |-> get_speed_item_mult(args.item_name)]
    /\ fpc' = "returned"
    /\ UNCHANGED <<battle, mask, orders, pc, snapshot, obs, epc, args, calls, training>>

SpeedAbilityMult ==
    /\ fpc = "called"
    /\ args.fn = "get_speed_ability_mult"
    /\ result' = [fn |-> "get_speed_ability_mult",
                  out |-> get_speed_ability_mult(args.ability_name, args.weather,
                                                 args.field, args.has_status,
                                                 args.item_lost)]
    /\ fpc' = "returned"
    /\ UNCHANGED <<battle, mask, orders, pc, snapshot, obs, epc, args, calls, training>>

RealSpeed ==
    /\ fpc = "called"
    /\ args.fn = "_real_speed"
    /\ result' = [fn |-> "_real_speed", out |-> _real_speed(args.pokemon, args.battle)]
    /\ fpc' = "returned"
    /\ UNCHANGED <<battle, mask, orders, pc, snapshot, obs, epc, args, calls, training>>

NextModifiers ==
    \/ AbilityMultipliers
    \/ AttackItemMult
    \/ DefenseItemDivisor
    \/ SpeedItemMult
    \/ SpeedAbilityMult
    \/ RealSpeed
    \/ EstimateDamage

SpecModifiers == InitModifiers /\ [][NextModifiers]_vars

---------------------------------------------------------------------------
(* Claims about the action mask *)

Masked == pc \in {"masked", "translated"}

Translated == pc = "translated"

\* the index addresses a roster position or a move slot that exists
SlotExists(i, b) ==
    IF i < 6 THEN i + 1 <= Len(b.team)
    ELSE b.active # 0 /\ ((i - 6) % 4) + 1 <= Len(ActiveMoves(b))

\* the switch rule and the move rule marked nothing on a non-forced turn
NothingMarked(b) ==
    /\ ~ForcedTurn(b)
    /\ SwitchIndices(b) \cup MoveIndices(b) = {}

\* C1: every index the mask marks True translates to an order that is legal
\* for the current turn.
C1_TrueIsLegal ==
    Translated => \A i \in Actions : mask[i] => Legal(orders[i], battle)

\* C2: on a non-forced turn, for i in 0..5, mask[i] is True exactly when the
\* roster has a member at absolute position i and that member is one of the
\* available switches.
C2_SwitchAbsolute ==
    (Masked /\ ~ForcedTurn(battle)) =>
        \A i \in 0 .. 5 :
            mask[i] <=> (/\ i + 1 <= Len(battle.team)
                         /\ \E k \in DOMAIN battle.available_switches :
                               battle.available_switches[k] = battle.team[i + 1])

\* a member is available whose position inside available_switches differs
\* from its roster position; only the roster position is marked
C2_Witness ==
    /\ Masked
    /\ ~ForcedTurn(battle)
    /\ Len(battle.team) = 6
    /\ battle.active = 2
    /\ battle.available_switches = <<MonNames[6], MonNames[4]>>
    /\ mask[5] /\ mask[3] /\ ~mask[0] /\ ~mask[1]

\* C3: when valid_orders is empty or holds only the default order, exactly
\* one entry of the mask is True, at index 6.
C3_ForcedOnlyDefault ==
    (Masked /\ (ValidOrders(battle) = {} \/ ValidOrders(battle) = {DefaultOrder})) =>
        \A i \in Actions : mask[i] <=> (i = 6)

\* a waiting turn with available moves, switches and capability flags
C3_Witness ==
    /\ Masked
    /\ battle.wait
    /\ Len(battle.available_moves) >= 2
    /\ battle.available_switches # <<>>
    /\ battle.can_tera /\ battle.can_mega_evolve
    /\ mask[6]

\* C4: the mask has exactly 26 entries and at least one of them is True.
C4_NonEmptyMask ==
    Masked => (/\ DOMAIN mask = 0 .. 25
               /\ \A i \in DOMAIN mask : mask[i] \in BOOLEAN
               /\ \E i \in DOMAIN mask : mask[i])

\* the two rules marked nothing, and the mask still has a True entry
C4_Witness ==
    /\ Masked
    /\ NothingMarked(battle)
    /\ \E i \in Actions : mask[i]

\* C5 as stated: when nothing is marked on a non-forced turn, all 26 actions
\* are marked legal.
C5_FallbackMarksAll ==
    (Masked /\ NothingMarked(battle)) => \A i \in Actions : mask[i]

\* C5 as amended: when nothing is marked on a non-forced turn, exactly
\* index 6 is marked legal.
C5_FallbackMarksDefault ==
    (Masked /\ NothingMarked(battle)) => \A i \in Actions : mask[i] <=> (i = 6)

\* only the fifth known move is available and no switch is possible
C5_Witness ==
    /\ Masked
    /\ NothingMarked(battle)
    /\ Len(battle.moves) = 5
    /\ battle.available_moves = <<battle.moves[5]>>
    /\ mask[6] /\ ~mask[7]

C7_MechanicsLayered ==
    Masked =>
        \A s \in 0 .. 3 :
            /\ mask[10 + s] => (mask[6 + s] /\ battle.can_mega_evolve)
            /\ mask[14 + s] =>
                  (/\ mask[6 + s]
                   /\ battle.can_z_move
                   /\ s + 1 <= Len(battle.moves)
                   /\ battle.moves[s + 1] \in Range(battle.available_z_moves))
            /\ mask[18 + s] => (mask[6 + s] /\ battle.can_dynamax)
            /\ mask[22 + s] => (mask[6 + s] /\ battle.can_tera)

\* every mechanic is marked for one slot, and the z-move is withheld from a
\* slot whose move is available but not among available_z_moves
C7_Witness ==
    /\ Masked
    /\ mask[6] /\ mask[10] /\ mask[14] /\ mask[18] /\ mask[22]
    /\ mask[7] /\ mask[11] /\ ~mask[14 + 1] /\ mask[19] /\ mask[23]
    /\ ~mask[8] /\ ~mask[12]

\* C8: on a non-forced turn whose available moves are not the single forced
\* move, mask[6+s] is True exactly when the active Pokemon has an own move at
\* slot s and that move is among the available moves.
C8_MoveSlotExact ==
    (Masked /\ ~ForcedTurn(battle) /\ ~SingleForcedMove(battle)) =>
        \A s \in 0 .. 3 :
            mask[6 + s] <=> (/\ battle.active # 0
                             /\ s + 1 <= Len(battle.moves)
                             /\ \E k \in DOMAIN battle.available_moves :
                                   battle.available_moves[k] = battle.moves[s + 1])

---------------------------------------------------------------------------
(* Claims about the observation vector *)

Encoded == epc = "encoded"

\* the entries of a vector at the offsets from .. to, counted from 0
Section(v, from, to) == SubSeq(v, from + 1, to + 1)

AllZero(v) == \A k \in DOMAIN v : v[k] = Zero

OwnActive == ActiveOf(snapshot.team)

OppActive == ActiveOf(snapshot.opponent_team)

\* the k-th non-active member of a side, counted from 0
OwnReserve(k) == ReserveAt(NotActive(snapshot.team), k)

OppReserve(k) == ReserveAt(NotActive(snapshot.opponent_team), k)

\* C9: the observation vector always has get_observation_size() = 570
\* entries, and its sections sit at fixed offsets: own active 0..137, combat
\* analysis 138..173, switch analysis 174..203, own reserve 204..303 (five
\* blocks of 20), opponent active 304..441, opponent reserve 442..541, field
\* 542..569, whatever the battle state.
C9_FixedLayout ==
    Encoded =>
        /\ Len(obs) = 570
        /\ get_observation_size = 570
        /\ Section(obs, 0, 137) =
              (IF OwnActive.name = None THEN Zeros(138)
               ELSE _encode_active_pokemon(OwnActive, TRUE))
        /\ Section(obs, 138, 173) =
              (IF OwnActive.name = None \/ OppActive.name = None THEN Zeros(36)
               ELSE _encode_combat_analysis(OwnActive, OppActive, snapshot))
        /\ Section(obs, 174, 203) =
              (IF OppActive.name = None THEN Zeros(30)
               ELSE _encode_switch_analysis([k \in 1 .. 5 |-> OwnReserve(k - 1)],
                                            OppActive, snapshot))
        /\ \A k \in 0 .. 4 :
              Section(obs, 204 + 20 * k, 223 + 20 * k) =
                  _encode_reserve_pokemon(OwnReserve(k))
        /\ Section(obs, 304, 441) =
              (IF OppActive.name = None THEN Zeros(138)
               ELSE _encode_active_pokemon(OppActive, FALSE))
        /\ \A k \in 0 .. 4 :
              Section(obs, 442 + 20 * k, 461 + 20 * k) =
                  _encode_reserve_pokemon(OppReserve(k))
        /\ Section(obs, 542, 569) = _encode_field(snapshot)

\* an own active with more than four known moves and no reserve behind it,
\* facing an opponent with no active and more than five non-active members
C9_Witness ==
    /\ Encoded
    /\ Len(obs) = 570
    /\ OwnActive.name # None
    /\ Len(OwnActive.moves) > 4
    /\ Len(NotActive(snapshot.team)) = 0
    /\ OppActive.name = None
    /\ Len(NotActive(snapshot.opponent_team)) > 5
    /\ snapshot.weather # <<>>

---------------------------------------------------------------------------
(* Claims about repeated calls *)

---------------------------------------------------------------------------
(* Claims about the damage estimate *)

Returned(fn) == fpc = "returned" /\ result.fn = fn

\* the move of the call is absent or has base power 0
NoPower(move) == move.id = None \/ move.base_power = 0

\* one of the defender's types is immune to the type of the move
TypeImmune(move, defender) ==
    \E k \in DOMAIN defender.types :
        /\ defender.types[k] # None
        /\ TYPE_CHART(move.type, defender.types[k]) = Zero

\* the registry of defender abilities grants immunity to the move: to its
\* type, to the moves of a set, or (Wonder Guard) to all but super effective
AbilityImmune(move, defender) ==
    LET ability == clean(defender.ability)
        params == Get(DEFENSE_ABILITIES, ability, NoParams)
    IN  /\ Truthy(ability)
        /\ \/ Get(params, "immune", None) = move.type
           \/ ability = "bulletproof" /\ move.id \in BALL_BOMB_MOVES
           \/ ability = "soundproof" /\ move.id \in SOUND_MOVES
           \/ /\ ability = "wonderguard"
              /\ \A k \in DOMAIN defender.types :
                    defender.types[k] # None =>
                        TYPE_CHART(move.type, defender.types[k]) # <<2, 1>>
              /\ Len(defender.types) <= 2

\* C12: _estimate_damage returns exactly 0 when the move is absent or has
\* base power 0, when a type of the defender is immune to the type of the
\* move, or when the ability of the defender grants immunity to the move,
\* whatever the abilities, items, boosts, status, weather, terrain, screens
\* and random roll of the call are.
C12_ZeroDamage ==
    (/\ Returned("_estimate_damage")
     /\ \/ NoPower(args.move)
        \/ TypeImmune(args.move, args.defender)
        \/ AbilityImmune(args.move, args.defender))
    => result.out = Zero

\* a boosted attacker with ability and item, under sun and on grassy
\* terrain, uses a Ground move on a Flying-type defender holding an item
C12_Witness ==
    /\ Returned("_estimate_damage")
    /\ args.move.id = "earthquake"
    /\ "flying" \in Range(args.defender.types)
    /\ args.attacker.ability = "adaptability"
    /\ args.attacker.item = "lifeorb"
    /\ args.attacker.boosts.atk = 2
    /\ args.defender.item = "assaultvest"
    /\ args.battle.weather # <<>>
    /\ result.out = Zero

---------------------------------------------------------------------------
(* Claims about the KO probability *)

FEq(x, y) == ~FLess(x, y) /\ ~FLess(y, x)

Clamped(x) == FMin(FMax(x, Zero), One)

\* the best damage of the call's attacker on its defender at the given roll
BestAt(roll) ==
    _best_damage_vs(args.attacker, args.defender, args.battle, args.is_own_attack, roll)

\* C13: with dMin the best damage at roll 0.85, dMax the best damage at roll
\* 1.00 and hp the current HP fraction of the defender, _ko_probability is
\* exactly 1 when dMin >= hp, exactly 0 when dMax < hp, and otherwise
\* (dMax - hp) / (dMax - dMin) clamped to [0, 1]; the result is always in
\* [0, 1] and dMin <= dMax.
C13_KoProbability ==
    Returned("_ko_probability") =>
        LET dMin == BestAt(<<17, 20>>)
            dMax == BestAt(One)
            hp == args.defender.current_hp_fraction
        IN  /\ FLeq(dMin, dMax)
            /\ FLeq(Zero, result.out) /\ FLeq(result.out, One)
            /\ IF FLeq(hp, dMin) THEN result.out = One
               ELSE IF FLess(dMax, hp) THEN result.out = Zero
               ELSE FEq(result.out, Clamped(FDiv(FSub(dMax, hp), FSub(dMax, dMin))))

\* the defender's HP lies between the two rolls: the probability is
\* interpolated, strictly between 0 and 1
C13_Witness ==
    /\ Returned("_ko_probability")
    /\ FLess(BestAt(<<17, 20>>), args.defender.current_hp_fraction)
    /\ FLess(args.defender.current_hp_fraction, BestAt(One))
    /\ FLess(Zero, result.out) /\ FLess(result.out, One)

---------------------------------------------------------------------------
(* Claims about the type chart *)

\* the single chart lookup of the k-th defender type, 1 for an absent one
Lookup(t, types, k) ==
    IF k \in DOMAIN types /\ types[k] # None THEN TYPE_CHART(t, types[k]) ELSE One

\* C14: for every attack type and every defender of one or two of the 18
\* types, _type_effectiveness is the product of the single chart lookups,
\* an absent second type contributing no factor; the chart is total over
\* the 18 x 18 pairs with values in {0, 0.5, 1, 2}; Water against Fire is 2
\* while Fire against Water is 0.5.
C14_ChartProduct ==
    /\ Cardinality(Range(TYPES)) = 18
    /\ \A a \in Range(TYPES), d \in Range(TYPES) :
          TYPE_CHART(a, d) \in {Zero, <<1, 2>>, One, <<2, 1>>}
    /\ TYPE_CHART("water", "fire") = <<2, 1>>
    /\ TYPE_CHART("fire", "water") = <<1, 2>>
    /\ Returned("_type_effectiveness") =>
          FEq(result.out,
              FMul(Lookup(args.move_type, args.defender.types, 1),
                   Lookup(args.move_type, args.defender.types, 2)))

\* an Ice attack on a Dragon / Flying defender: 2 x 2
C14_Witness ==
    /\ Returned("_type_effectiveness")
    /\ args.move_type = "ice"
    /\ args.defender.types = <<"dragon", "flying">>
    /\ result.out = <<4, 1>>

---------------------------------------------------------------------------
(* Claims about the numeric building blocks *)

\* floor(floor(42 * power * atk / def / 50) + 2) in integer arithmetic, for
\* the fractions atk and def
NestedFloors(power, atk, def) ==
    ((42 * power * atk[1] * def[2]) \div (atk[2] * def[1] * 50)) + 2

\* the types an attacker is known to have
KnownTypes(pokemon) == {t \in Range(pokemon.types) : t # None}

\* the higher offensive and the lower defensive stat at level 100
BestOffense(pokemon) ==
    _stat_at_100(Max({pokemon.base_stats.atk, pokemon.base_stats.spa}), FALSE)

WeakestDefense(pokemon) ==
    _stat_at_100(-Max({-pokemon.base_stats.def, -pokemon.base_stats.spd}), FALSE)

C16_BoostMultiplier ==
    /\ Returned("_boost_multiplier") =>
          /\ args.boost >= 0 => FEq(result.out, FDiv(Int2F(2 + args.boost), Int2F(2)))
          /\ args.boost < 0 => FEq(result.out, FDiv(Int2F(2), Int2F(2 - args.boost)))
          /\ args.boost = 0 => result.out = One
          /\ args.boost = 6 => result.out = <<4, 1>>
          /\ args.boost = -6 => result.out = <<1, 4>>
    /\ \A s \in BoostStages \ {6} :
          FLess(_boost_multiplier(s), _boost_multiplier(s + 1))

C16_Witness ==
    /\ Returned("_boost_multiplier")
    /\ args.boost = -6
    /\ result.out = <<1, 4>>

---------------------------------------------------------------------------
(* Claims about the screens *)

\* the conditions of the side that takes the hit
DefendingSide(b, is_own_attack) ==
    IF is_own_attack THEN b.opponent_side_conditions ELSE b.side_conditions

\* the divisor the claim names: 2 behind Aurora Veil, behind Reflect for a
\* physical move, behind Light Screen for a special one
ScreenDivisorOf(b, is_physical, is_own_attack) ==
    LET up == DOMAIN DefendingSide(b, is_own_attack) IN
    IF \/ "aurora_veil" \in up
       \/ "reflect" \in up /\ is_physical
       \/ "light_screen" \in up /\ ~is_physical
    THEN <<2, 1>> ELSE One

Lowered(side) == [c \in DOMAIN side \ Screens |-> side[c]]

\* the battle with the screens of the attacking side taken down
AttackerUnscreened(b, is_own_attack) ==
    IF is_own_attack
    THEN [b EXCEPT !.side_conditions = Lowered(@)]
    ELSE [b EXCEPT !.opponent_side_conditions = Lowered(@)]

\* the battle with the screens of both sides taken down
Unscreened(b) ==
    [b EXCEPT !.side_conditions = Lowered(@), !.opponent_side_conditions = Lowered(@)]

\* the estimate of the call's arguments in another battle
EstimateIn(b) ==
    _estimate_damage(args.move, args.attacker, args.defender, b, args.is_own_attack,
                     args.random_roll)

\* C17: the screen divisor is 2 if and only if the defending side (the
\* opponent's when is_own_attack, the own side otherwise) has Aurora Veil,
\* or Reflect against a physical move, or Light Screen against a special
\* move, and 1 otherwise; it is never more than 2; _estimate_damage divides
\* by it, and screens of the attacking side do not change the estimate.
C17_ScreenDivisor ==
    /\ Returned("_get_screen_divisor") =>
          result.out = ScreenDivisorOf(args.battle, args.is_physical, args.is_own_attack)
    /\ Returned("_get_screen_divisor") => FLeq(result.out, <<2, 1>>)
    /\ (Returned("_estimate_damage") /\ ~NoPower(args.move)) =>
          LET bare == EstimateIn(Unscreened(args.battle))
              divisor == ScreenDivisorOf(args.battle, args.move.category = "physical",
                                         args.is_own_attack)
          IN  /\ result.out = EstimateIn(AttackerUnscreened(args.battle, args.is_own_attack))
              /\ FLess(bare, One) => FEq(result.out, FDiv(bare, divisor))

\* a physical move into a side with all three screens up, from a side with
\* screens of its own: the damage is halved once
C17_Witness ==
    /\ Returned("_estimate_damage")
    /\ args.move.id = "earthquake"
    /\ ~args.is_own_attack
    /\ Screens \subseteq DOMAIN args.battle.side_conditions
    /\ "reflect" \in DOMAIN args.battle.opponent_side_conditions
    /\ FLess(Zero, result.out)
    /\ FLess(EstimateIn(Unscreened(args.battle)), One)
    /\ FEq(FMul(result.out, <<2, 1>>), EstimateIn(Unscreened(args.battle)))

---------------------------------------------------------------------------
(* Claims about the modifier resolver *)

\* the defender of a resolver call has the given ability and is hit by Fire
FireOn(ability) ==
    /\ args.move.id # None
    /\ args.move.type = "fire"
    /\ clean(args.defender.ability) = ability

\* C18 as stated: the resolver's attack multiplier is >= 0 and its defense
\* divisor is >= 1, and no defender item yields a divisor below 1.
C18_DivisorAtLeastOne ==
    /\ Returned("_get_ability_multipliers") =>
          FLeq(Zero, result.out.atk_mult) /\ FLeq(One, result.out.def_mult)
    /\ Returned("get_defense_item_divisor") => FLeq(One, result.out)

\* C18: the resolver's attack multiplier is >= 0 and its defense divisor is
\* > 0; the divisor is >= 1 except for a Fire move on a Fluffy defender (0.5)
\* and a Fire move on a Dry Skin defender (0.8), where the ability of the
\* defender increases the damage taken; no defender item yields a divisor
\* below 1.
C18_DivisorBounds ==
    /\ Returned("_get_ability_multipliers") =>
          /\ FLeq(Zero, result.out.atk_mult)
          /\ FLess(Zero, result.out.def_mult)
          /\ FLess(result.out.def_mult, One) => FireOn("fluffy") \/ FireOn("dryskin")
          /\ FireOn("fluffy") => result.out.def_mult = <<1, 2>>
          /\ FireOn("dryskin") => result.out.def_mult = <<4, 5>>
    /\ Returned("get_defense_item_divisor") => FLeq(One, result.out)

\* a Fire move on a Fluffy defender: the divisor is 0.5
C18_Witness ==
    /\ Returned("_get_ability_multipliers")
    /\ FireOn("fluffy")
    /\ args.move.id = "flareblitz"
    /\ result.out.def_mult = <<1, 2>>
    /\ ~result.out.immune

\* the keys of the registries of items_and_abilities.py
RegisteredNames ==
    DOMAIN ATTACK_ITEMS \cup DOMAIN DEFENSE_ITEMS \cup DOMAIN SPEED_ITEMS
    \cup DOMAIN TYPE_BOOST_ITEMS \cup DOMAIN LEGENDARY_ORB_SECONDARY
    \cup DOMAIN ATTACK_ABILITIES \cup DOMAIN DEFENSE_ABILITIES
    \cup DOMAIN SPEED_ABILITIES \cup DOMAIN STAT_DROP_ABILITIES

\* an absent identifier, or one that is in no registry
Unlisted(name) == name = None \/ (name \notin RegisteredNames /\ clean(name) \notin RegisteredNames)

Bare(pokemon) == Holding(pokemon, None, None)

\* C19: for every ability or item identifier that is in no registry, and
\* for an absent one, the four lookups return 1.0, the resolver returns
\* (1.0, 1.0, no STAB override, not immune), and the estimated damage and
\* the speed equal those of a Pokemon with no ability and no item.
C19_UnlistedAreNoOps ==
    /\ (Returned("get_attack_item_mult") /\ Unlisted(args.item_name)) => result.out = One
    /\ (Returned("get_defense_item_divisor") /\ Unlisted(args.item_name)) => result.out = One
    /\ (Returned("get_speed_item_mult") /\ Unlisted(args.item_name)) => result.out = One
    /\ (Returned("get_speed_ability_mult") /\ Unlisted(args.ability_name))
       => result.out = One
    /\ (/\ Returned("_get_ability_multipliers")
        /\ Unlisted(args.attacker.ability) /\ Unlisted(args.defender.ability))
       => result.out = [atk_mult |-> One, def_mult |-> One,
                        stab_override |-> NoOverride, immune |-> FALSE]
    /\ (/\ Returned("_estimate_damage")
        /\ Unlisted(args.attacker.ability) /\ Unlisted(args.attacker.item)
        /\ Unlisted(args.defender.ability) /\ Unlisted(args.defender.item))
       => result.out = _estimate_damage(args.move, Bare(args.attacker), Bare(args.defender),
                                        args.battle, args.is_own_attack, args.random_roll)
    /\ (/\ Returned("_real_speed")
        /\ Unlisted(args.pokemon.ability) /\ Unlisted(args.pokemon.item))
       => result.out = _real_speed(Bare(args.pokemon), args.battle)

---------------------------------------------------------------------------
(* Claims about the best-damage search *)

\* the attacker has revealed no move with base power > 0
NoKnownAttack(pokemon) == \A k \in DOMAIN pokemon.moves : pokemon.moves[k].base_power = 0

\* the attacker's types that can hit the defender
HittingTypes(attacker, defender) ==
    {t \in KnownTypes(attacker) : _type_effectiveness(t, defender) # Zero}

\* a base-power-80 same-type attack of type t from the higher offensive stat
GenericAttack(t, attacker, defender, roll) ==
    LET base == NestedFloors(80, BestOffense(attacker), WeakestDefense(defender))
        dmg == FMul(FMul(FMul(Int2F(base), roll), <<3, 2>>),
                    _type_effectiveness(t, defender))
    IN  FMin(FDiv(dmg, _stat_at_100(defender.base_stats.hp, TRUE)), One)

\* C20: whenever the attacker has no known move with base power > 0 (no
\* move revealed, or only status moves revealed), _best_damage_vs returns
\* the maximum over the attacker's known types of the generic
\* base-power-80 same-type attack, which is greater than 0 whenever one of
\* the attacker's types has non-zero effectiveness against the defender.
C20_FallbackWithoutAttacks ==
    (Returned("_best_damage_vs") /\ NoKnownAttack(args.attacker)) =>
        LET hitting == HittingTypes(args.attacker, args.defender) IN
        /\ FEq(result.out,
               FMaxOf({GenericAttack(t, args.attacker, args.defender, args.roll) :
                          t \in hitting}))
        /\ hitting # {} => FLess(Zero, result.out)

---------------------------------------------------------------------------
(* Claims about the conditions of the modifiers *)

\* the weather or terrain the registry names for the ability is active
ConditionActive(ability, b) ==
    IF ability \in {"solarpower", "orichalcumpulse"}
    THEN Range(b.weather) \cap {"sunnyday", "desolateland"} # {}
    ELSE IF ability = "sandforce" THEN "sandstorm" \in Range(b.weather)
    ELSE IF ability = "hadronengine" THEN "electric_terrain" \in Range(b.fields)
    ELSE TRUE

FieldConditioned == {"solarpower", "orichalcumpulse", "sandforce", "hadronengine"}

WithoutAbility(pokemon) == [pokemon EXCEPT !.ability = None]

\* C21: an attacker with Solar Power, Orichalcum Pulse, Sand Force or
\* Hadron Engine, in a battle where the sun, the sandstorm or the Electric
\* Terrain the ability needs is not active, deals the estimated damage of
\* the same attacker without the ability: the multiplier of the ability is 1.
C21_FieldConditionedAbilities ==
    (/\ Returned("_estimate_damage")
     /\ clean(args.attacker.ability) \in FieldConditioned
     /\ ~ConditionActive(clean(args.attacker.ability), args.battle))
    => result.out = _estimate_damage(args.move, WithoutAbility(args.attacker), args.defender,
                                     args.battle, args.is_own_attack, args.random_roll)

\* the type-resist berries of the registry
Berries == {i \in DOMAIN DEFENSE_ITEMS : Get(DEFENSE_ITEMS[i], "note", "") = "consumed_on_hit"}

\* C22: a type-resist berry held by the defender gives divisor 2 for every
\* move of the berry's type, physical or special, and divisor 1 for every
\* move of another type.
C22_BerriesHalveTheirType ==
    (Returned("get_defense_item_divisor") /\ args.item_name \in Berries)
    => result.out = IF args.move_type = DEFENSE_ITEMS[args.item_name].type
                    THEN <<2, 1>> ELSE One

---------------------------------------------------------------------------
(***************************************************************************)
(* Part 3: the training loop.  The battle logger                           *)
(* (src/src/utils/battle_logger.py), the reward tracker                    *)
(* (src/src/agent/reward.py), ShowdownEnv.calc_reward                      *)
(* (src/src/bot/player.py) and the self-play run                           *)
(* (src/src/training/self_play.py, src/main.py).                           *)
(***************************************************************************)

\* no BattleRecord (None)
NoRecord == [k \in {} |-> None]

IsNone(rec) == DOMAIN rec = {}

\* BattleRecord(battle_id): turns holds the action_type of every TurnRecord,
\* won is battle.won ("True", "False" or "None") once finalized
BattleRecord(battle_id) == [battle_id |-> battle_id, turns |-> <<>>, won |-> "None"]

\* battle.won and battle.lost of a battle with the given outcome
Won(b) == b.outcome = "won"

Lost(b) == b.outcome = "lost"

Finished(b) == b.outcome # "ongoing"

\* BattleRecord.finalize
finalize(rec, b) ==
    [rec EXCEPT !.won = IF Won(b) THEN "True" ELSE IF Lost(b) THEN "False" ELSE "None"]

\* BattleLogger.__init__; report is the batch of the file written last
BattleLogger(report_every) ==
    [report_every |-> report_every, _total_battles |-> 0, _batch |-> <<>>,
     _recent |-> <<>>, _current |-> NoRecord, report |-> <<>>]

\* the logger after _write_report: the file is rewritten from the batch
_write_report(lg) == IF lg._batch = <<>> THEN lg ELSE [lg EXCEPT !.report = lg._batch]

\* the record in course, opened if there is none
Current(lg) ==
    IF IsNone(lg._current) THEN BattleRecord(lg._total_battles + 1) ELSE lg._current

log_turn(lg, b, action_type) ==
    IF b.active = None \/ b.opponent_active = None
    THEN [lg EXCEPT !._current = Current(lg)]
    ELSE [lg EXCEPT !._current = [Current(lg) EXCEPT !.turns = Append(@, action_type)]]

\* an end_battle that never drops the oldest transcript
EndBattleKeepingAll(lg, b) ==
    LET rec == finalize(Current(lg), b)
        ended == [lg EXCEPT !._total_battles = @ + 1, !._batch = Append(@, rec),
                            !._recent = Append(@, rec), !._current = NoRecord]
    IN  IF Len(ended._batch) >= ended.report_every
        THEN [_write_report(ended) EXCEPT !._batch = <<>>]
        ELSE ended

end_battle(lg, b) ==
    LET rec == finalize(Current(lg), b)
        recent == Append(lg._recent, rec)
        ended == [lg EXCEPT !._total_battles = @ + 1, !._batch = Append(@, rec),
                            !._recent = IF Len(recent) > 10 THEN Tail(recent) ELSE recent,
                            !._current = NoRecord]
    IN  IF Len(ended._batch) >= ended.report_every
        THEN [_write_report(ended) EXCEPT !._batch = <<>>]
        ELSE ended

force_report(lg) == IF lg._batch # <<>> THEN _write_report(lg) ELSE lg

\* the battles a run of the logger sees, the turns it logs, the battles it
\* loses and the report periods it is built with
MaxBattles == 11

MaxTurnLogs == 1

MaxLosses == 1

MaxReportEvery == 3

\* the battle handed to the logger and to calc_reward: the Pokemon fainted
\* and the summed HP fraction of each team, the species of the actives, the
\* boosts of the own active and the outcome
Game(own_fainted, opp_fainted, own_hp, opp_hp, active, opponent_active, boosts, outcome) ==
    [own_fainted |-> own_fainted, opp_fainted |-> opp_fainted, own_hp |-> own_hp,
     opp_hp |-> opp_hp, active |-> active, opponent_active |-> opponent_active,
     boosts |-> boosts, outcome |-> outcome]

NoGameBoosts == [atk |-> 0, spa |-> 0, spe |-> 0]

\* the battles the logger is called with: with and without both actives
LoggedGames ==
    {Game(0, 0, <<2, 1>>, <<2, 1>>, a, o, NoGameBoosts, "ongoing") :
        a \in {None, "charizard"}, o \in {None, "gyarados"}}

EndedGames ==
    {Game(0, 0, <<2, 1>>, <<2, 1>>, "charizard", "gyarados", NoGameBoosts, r) :
        r \in {"won", "lost"}}

\* the turns logged so far in the open record and in the kept ones
RECURSIVE TurnsIn(_)
TurnsIn(recs) == IF recs = <<>> THEN 0 ELSE Len(Head(recs).turns) + TurnsIn(Tail(recs))

TurnsLogged(lg) ==
    TurnsIn(lg._recent) + (IF IsNone(lg._current) THEN 0 ELSE Len(lg._current.turns))

\* the battles lost among the kept ones
Losses(lg) == Cardinality({k \in DOMAIN lg._recent : lg._recent[k].won = "False"})

InitLogger ==
    /\ \E r \in 1 .. MaxReportEvery : logger = BattleLogger(r)
    /\ game = <<>>
    /\ tracker = <<>>
    /\ learner = <<>>
    /\ battle = IdleBattle
    /\ mask = NoMask
    /\ orders = NoOrders
    /\ pc = "idle"
    /\ snapshot = IdleSnapshot
    /\ obs = <<>>
    /\ epc = "idle"
    /\ args = NoArgs
    /\ result = NoResult
    /\ fpc = "idle"
    /\ calls = <<>>

estimator == <<battle, mask, orders, pc, snapshot, obs, epc, args, result, fpc, calls>>

\* choose_move logs the turn before it returns its order
LogTurn ==
    /\ logger._total_battles < MaxBattles
    /\ TurnsLogged(logger) < MaxTurnLogs
    /\ \E b \in LoggedGames, action_type \in {"move", "switch"} :
          logger' = log_turn(logger, b, action_type)
    /\ UNCHANGED <<estimator, game, tracker, learner>>

EndBattle ==
    /\ logger._total_battles < MaxBattles
    /\ \E b \in EndedGames :
          /\ Lost(b) => Losses(logger) < MaxLosses
          /\ logger' = end_battle(logger, b)
    /\ UNCHANGED <<estimator, game, tracker, learner>>

ForceReport ==
    /\ logger' = force_report(logger)
    /\ UNCHANGED <<estimator, game, tracker, learner>>

NextLogger == LogTurn \/ EndBattle \/ ForceReport

SpecLogger == InitLogger /\ [][NextLogger]_vars

---------------------------------------------------------------------------
(* Claims about the battle logger *)

\* the battle ids of a list of records
Ids(recs) == [k \in DOMAIN recs |-> recs[k].battle_id]

\* the ids first, first + 1, ... in order
Consecutive(ids) == \A k \in DOMAIN ids : ids[k] = ids[1] + k - 1

\* the list ends with the battle that ended last
EndsAtLast(recs, lg) == recs # <<>> => recs[Len(recs)].battle_id = lg._total_battles

\* C29: after any sequence of log_turn, end_battle and force_report calls
\* on a logger with report_every >= 1, every end_battle increases
\* _total_battles by exactly 1 and leaves _current None; _recent holds at
\* most 10 battles, the most recently ended ones in order; _batch holds
\* fewer than report_every battles, because end_battle writes the report
\* and empties the batch on the call at which the batch reaches
\* report_every; the battle ids inside one batch are consecutive.
C29_LoggerBookkeeping ==
    /\ [](/\ Len(logger._recent) <= 10
          /\ Len(logger._recent) = IF logger._total_battles < 10
                                   THEN logger._total_battles ELSE 10
          /\ Consecutive(Ids(logger._recent))
          /\ EndsAtLast(logger._recent, logger)
          /\ Len(logger._batch) < logger.report_every
          /\ Consecutive(Ids(logger._batch))
          /\ EndsAtLast(logger._batch, logger))
    /\ [][EndBattle =>
            /\ logger'._total_battles = logger._total_battles + 1
            /\ IsNone(logger'._current)
            /\ (Len(logger._batch) + 1 = logger.report_every
                => logger'._batch = <<>> /\ Len(logger'.report) = logger.report_every)
            /\ (Len(logger._batch) + 1 < logger.report_every
                => Len(logger'._batch) = Len(logger._batch) + 1
                   /\ logger'.report = logger.report)]_vars

\* eleven battles ended: the oldest transcript is gone, a report was
\* written and a new batch is under way
C29_Witness ==
    /\ logger._total_battles = 11
    /\ Len(logger._recent) = 10
    /\ logger._recent[1].battle_id = 2
    /\ logger._batch # <<>>
    /\ logger.report # <<>>
    /\ IsNone(logger._current)

---------------------------------------------------------------------------
(* RewardTracker and ShowdownEnv.calc_reward *)

\* the defaults of config.get in RewardTracker.compute
RewardConfig ==
    [win |-> One, lose |-> <<-1, 1>>, faint_enemy |-> <<1, 2>>, own_faint |-> <<-1, 20>>,
     hp_fraction_coef |-> <<1, 50>>, switch_penalty |-> <<-1, 50>>, boost_coef |-> <<3, 100>>]

\* RewardTracker.__init__
RewardTracker ==
    [_prev_own_fainted |-> 0, _prev_opp_fainted |-> 0, _prev_active_name |-> None,
     _prev_atk_boost |-> 0, _prev_spa_boost |-> 0, _prev_spe_boost |-> 0]

\* RewardTracker.reset
reset(tr) ==
    [tr EXCEPT !._prev_own_fainted = 0, !._prev_opp_fainted = 0,
               !._prev_active_name = None, !._prev_atk_boost = 0,
               !._prev_spa_boost = 0, !._prev_spe_boost = 0]

\* the two faint deltas that compute adds to the reward
FaintSignal(tr, b) ==
    FAdd(FMul(Int2F(b.opp_fainted - tr._prev_opp_fainted), RewardConfig.faint_enemy),
         FMul(Int2F(b.own_fainted - tr._prev_own_fainted), RewardConfig.own_faint))

\* RewardTracker.compute: the reward and the tracker it leaves
compute(tr, b) ==
    LET terminal == IF Won(b) THEN RewardConfig.win
                    ELSE IF Lost(b) THEN RewardConfig.lose ELSE Zero
        switched == /\ b.active # None
                    /\ tr._prev_active_name # None
                    /\ b.active # tr._prev_active_name
        delta == IF b.active = None THEN 0
                 ELSE Max({0, (b.boosts.atk - tr._prev_atk_boost)
                              + (b.boosts.spa - tr._prev_spa_boost)
                              + (b.boosts.spe - tr._prev_spe_boost)})
        hp == IF Finished(b)
              THEN FMul(RewardConfig.hp_fraction_coef, FSub(b.own_hp, b.opp_hp)) ELSE Zero
        counted == [tr EXCEPT !._prev_opp_fainted = b.opp_fainted,
                              !._prev_own_fainted = b.own_fainted]
    IN  [reward |-> FAdd(FAdd(FAdd(FAdd(terminal, FaintSignal(tr, b)),
                                   IF switched THEN RewardConfig.switch_penalty ELSE Zero),
                              FMul(RewardConfig.boost_coef, Int2F(delta))), hp),
         tracker |-> IF b.active = None THEN counted
                     ELSE [counted EXCEPT !._prev_active_name = b.active,
                                          !._prev_atk_boost = b.boosts.atk,
                                          !._prev_spa_boost = b.boosts.spa,
                                          !._prev_spe_boost = b.boosts.spe]]

\* ShowdownEnv.__init__: the tracker and the training logger of the environment
TrainingLogger == BattleLogger(1000)

\* ShowdownEnv.calc_reward: the logger and the tracker it leaves, the reward
\* it returns and the faint deltas inside that reward
calc_reward(lg, tr, b) ==
    LET ended == IF Finished(b) THEN end_battle(lg, b) ELSE lg
        fresh == IF Finished(b) THEN reset(tr) ELSE tr
        computed == compute(fresh, b)
    IN  [logger |-> ended, tracker |-> computed.tracker, reward |-> computed.reward,
         faint |-> FaintSignal(fresh, b)]

\* the Pokemon of each team, the calc_reward calls of one battle and the
\* battles of one run
TeamSize == 2

MaxDecisions == 3

MaxEpisodes == 2

\* the battle before its first turn
NewGame ==
    Game(0, 0, Int2F(TeamSize), Int2F(TeamSize), "charizard", "gyarados", NoGameBoosts,
         "ongoing")

\* the states the battle can be in one step later: fainted Pokemon stay
\* fainted, the battle is won when the last opposing Pokemon faints and lost
\* when the last own one does, the active may change and may boost its Attack
GameAfter(g) ==
    {Game(own, opp, Int2F(TeamSize - own), Int2F(TeamSize - opp), a, "gyarados",
          [NoGameBoosts EXCEPT !.atk = k],
          IF opp = TeamSize THEN "won" ELSE IF own = TeamSize THEN "lost" ELSE "ongoing") :
        own \in g.own_fainted .. TeamSize, opp \in g.opp_fainted .. TeamSize,
        a \in {"charizard", "venusaur"}, k \in {0, 1}}

InitReward ==
    /\ game = NewGame
    /\ tracker = RewardTracker
    /\ logger = TrainingLogger
    /\ learner = <<>>
    /\ calls = <<>>
    /\ battle = IdleBattle
    /\ mask = NoMask
    /\ orders = NoOrders
    /\ pc = "idle"
    /\ snapshot = IdleSnapshot
    /\ obs = <<>>
    /\ epc = "idle"
    /\ args = NoArgs
    /\ result = NoResult
    /\ fpc = "idle"

\* one step of the environment: the battle advances and calc_reward is
\* called on it
CalcReward ==
    /\ ~Finished(game)
    /\ \E g \in GameAfter(game) :
          LET r == calc_reward(logger, tracker, g) IN
          /\ Len(calls) + 1 = MaxDecisions => Finished(g)
          /\ game' = g
          /\ logger' = r.logger
          /\ tracker' = r.tracker
          /\ calls' = Append(calls, [fn |-> "calc_reward", out |-> r.reward,
                                     faint |-> r.faint])
    /\ UNCHANGED <<battle, mask, orders, pc, snapshot, obs, epc, args, result, fpc, learner>>

\* the environment starts the next battle
StartBattle ==
    /\ Finished(game)
    /\ logger._total_battles < MaxEpisodes
    /\ game' = NewGame
    /\ calls' = <<>>
    /\ UNCHANGED <<battle, mask, orders, pc, snapshot, obs, epc, args, result, fpc>>
    /\ UNCHANGED <<tracker, logger, learner>>

NextReward == CalcReward \/ StartBattle

SpecReward == InitReward /\ [][NextReward]_vars

---------------------------------------------------------------------------
(* Claims about the reward *)

RECURSIVE FaintSum(_)
\* the sum of the faint deltas of the calc_reward calls logged
FaintSum(log) == IF log = <<>> THEN Zero ELSE FAdd(Head(log).faint, FaintSum(Tail(log)))

\* a new battle has started and calc_reward has not been called on it yet
BeforeFirstReward == logger._total_battles > 0 /\ ~Finished(game) /\ calls = <<>>

\* C23: the tracker is reset at the start of every battle: when the first
\* calc_reward call of a new battle is made, the fainted counts of the
\* tracker are 0, its previous active name is None and its previous boosts
\* are 0, so that no delta of the new battle is computed against the final
\* state of the battle before.
C23_TrackerResetPerBattle ==
    BeforeFirstReward => tracker = reset(tracker)

\* C30: each faint is rewarded exactly once: when a battle has ended, the
\* faint deltas of its calc_reward calls sum to faint_enemy times the
\* opposing Pokemon fainted plus own_faint times the own Pokemon fainted.
C30_FaintsRewardedOnce ==
    (Finished(game) /\ calls # <<>>) =>
        FEq(FaintSum(calls),
            FAdd(FMul(Int2F(game.opp_fainted), RewardConfig.faint_enemy),
                 FMul(Int2F(game.own_fainted), RewardConfig.own_faint)))

---------------------------------------------------------------------------
(* run_self_play, SelfPlayOpponent and _UpdateOpponentCallback *)

\* SelfPlayOpponent.__init__: the opponent keeps the model object it is
\* given; objects are named by identity, their weights live in lr.weights
SelfPlayOpponent(model) == [class |-> "SelfPlayOpponent", _model |-> model]

\* the default opponent of make_single_agent_env
SimpleHeuristicsPlayer == [class |-> "SimpleHeuristicsPlayer", _model |-> None]

\* SelfPlayOpponent.update_model
update_model(opponent, model) == [opponent EXCEPT !._model = model]

\* _UpdateOpponentCallback.__init__
_UpdateOpponentCallback(agent, update_freq) ==
    [_agent |-> agent, _update_freq |-> update_freq, _last_update |-> 0]

NoCallback == [k \in {} |-> None]

\* an _on_step that never moves _last_update
OnStepWithoutMark(lr) ==
    IF lr.num_timesteps - lr.callback._last_update >= lr.callback._update_freq
    THEN [lr EXCEPT !.opponent = update_model(@, lr.callback._agent),
                    !.updated = TRUE, !.returned = TRUE]
    ELSE [lr EXCEPT !.updated = FALSE, !.returned = TRUE]

\* _UpdateOpponentCallback._on_step on the run lr: updated tells whether the
\* opponent was updated (and the message printed), returned is what the
\* callback returned
_on_step(lr) ==
    IF lr.num_timesteps - lr.callback._last_update >= lr.callback._update_freq
    THEN [lr EXCEPT !.opponent = update_model(@, lr.callback._agent),
                    !.callback._last_update = lr.num_timesteps,
                    !.updated = TRUE, !.returned = TRUE]
    ELSE [lr EXCEPT !.updated = FALSE, !.returned = TRUE]

\* a call of run_self_play: update_freq is update_opponent_freq of the
\* config, saved the num_timesteps of the model at resume, exists whether
\* resume + ".zip" is a file
SelfPlayCall(resume, vs_self, tag, update_freq, saved, exists) ==
    [fn |-> "run_self_play", resume |-> resume, vs_self |-> vs_self, tag |-> tag,
     update_freq |-> update_freq, saved |-> saved, exists |-> exists]

\* the run before agent.learn: the one agent object "agent" with its
\* weights, the opponent, the callback and the step counter
Run(c, raised, loaded, opponent, callback) ==
    [phase |-> IF raised = None THEN "learning" ELSE "raised", raised |-> raised, call |-> c,
     agent |-> "agent", weights |-> [agent |-> 0], opponent |-> opponent,
     callback |-> callback,
     num_timesteps |-> IF c.resume # None /\ loaded THEN c.saved ELSE 0,
     updated |-> FALSE, returned |-> TRUE]

\* run_self_play up to the call of agent.learn
run_self_play(c) ==
    IF c.vs_self
    THEN IF c.resume = None
         THEN Run(c, "ValueError", FALSE, SimpleHeuristicsPlayer, NoCallback)
         ELSE Run(c, None, TRUE, SelfPlayOpponent("agent"),
                  _UpdateOpponentCallback("agent", c.update_freq))
    ELSE Run(c, None, c.resume # None /\ c.exists, SimpleHeuristicsPlayer, NoCallback)

\* the weights the opponent plays with
OpponentPolicy(lr) ==
    IF lr.opponent.class = "SelfPlayOpponent" THEN lr.weights[lr.opponent._model] ELSE 0

\* update_opponent_freq, the timesteps of a saved model, the timesteps of
\* one environment step, total_timesteps and the weight updates of a run
MaxFreq == 3

MaxSaved == 2

MaxInc == 2

MaxTimesteps == 6

MaxTrains == 2

SelfPlayCalls ==
    {SelfPlayCall(r, v, t, f, s, e) :
        r \in {None, "models/vs_heuristic/final_model"}, v \in BOOLEAN, t \in {None, "v2"},
        f \in 0 .. MaxFreq, s \in {0, MaxSaved}, e \in BOOLEAN}

InitSelfPlay ==
    /\ \E c \in SelfPlayCalls :
          /\ c.vs_self /\ c.resume # None => c.exists
          /\ c.resume = None => c.saved = 0 /\ ~c.exists
          /\ learner = [phase |-> "called", call |-> c]
    /\ game = <<>>
    /\ tracker = <<>>
    /\ logger = <<>>
    /\ battle = IdleBattle
    /\ mask = NoMask
    /\ orders = NoOrders
    /\ pc = "idle"
    /\ snapshot = IdleSnapshot
    /\ obs = <<>>
    /\ epc = "idle"
    /\ args = NoArgs
    /\ result = NoResult
    /\ fpc = "idle"
    /\ calls = <<>>

RunSelfPlay ==
    /\ learner.phase = "called"
    /\ learner' = run_self_play(learner.call)
    /\ UNCHANGED <<estimator, game, tracker, logger>>

\* one environment step of agent.learn: num_timesteps grows and the
\* callbacks run; a callback that returns False ends the training
EnvStep ==
    /\ learner.phase = "learning"
    /\ learner.num_timesteps < MaxTimesteps
    /\ \E inc \in 0 .. MaxInc :
          LET stepped == [learner EXCEPT !.num_timesteps = @ + inc]
              called == IF IsNone(stepped.callback) THEN stepped ELSE _on_step(stepped)
          IN  learner' = IF called.returned THEN called
                         ELSE [called EXCEPT !.phase = "stopped"]
    /\ UNCHANGED <<estimator, game, tracker, logger>>

\* one gradient update of agent.learn: the weights of the agent object change
Train ==
    /\ learner.phase = "learning"
    /\ learner.weights[learner.agent] < MaxTrains
    /\ learner' = [learner EXCEPT !.weights[learner.agent] = @ + 1]
    /\ UNCHANGED <<estimator, game, tracker, logger>>

\* agent.learn returns at total_timesteps and the final model is saved
SaveFinal ==
    /\ learner.phase = "learning"
    /\ learner.num_timesteps >= MaxTimesteps
    /\ learner' = [learner EXCEPT !.phase = "saved"]
    /\ UNCHANGED <<estimator, game, tracker, logger>>

NextSelfPlay == RunSelfPlay \/ EnvStep \/ Train \/ SaveFinal

SpecSelfPlay == InitSelfPlay /\ [][NextSelfPlay]_vars

---------------------------------------------------------------------------
(* Claims about the self-play run *)

\* the run is inside agent.learn, or has just left it
Learning(lr) == lr.phase \in {"learning", "saved", "stopped"}

\* the run has the update callback of vs_self
SelfPlaying(lr) == Learning(lr) /\ ~IsNone(lr.callback)

\* timesteps since the opponent was updated last
SinceUpdate(lr) == lr.num_timesteps - lr.callback._last_update

\* C24: in vs_self mode the opponent plays with a frozen copy of the
\* agent: a step of the run changes the policy of the opponent only if it
\* is a step on which _UpdateOpponentCallback calls update_model; the
\* learning steps that change the weights of the agent leave it as it was.
C24_OpponentFrozenBetweenUpdates ==
    [][(/\ SelfPlaying(learner)
        /\ OpponentPolicy(learner') # OpponentPolicy(learner))
       => EnvStep /\ learner'.updated]_vars

\* what _on_step does on one step of a run with the callback, as the claim
\* C28 puts it
OnStepAsClaimed ==
    LET due == learner'.num_timesteps - learner.callback._last_update
               >= learner.callback._update_freq
    IN  /\ learner'.updated = due
        /\ due => /\ learner'.callback._last_update = learner'.num_timesteps
                  /\ learner'.opponent._model = learner.callback._agent
        /\ ~due => /\ learner'.callback._last_update = learner.callback._last_update
                   /\ learner'.opponent = learner.opponent
        /\ learner'.returned
        /\ learner'.phase = "learning"

\* C28 as stated: for any non-decreasing sequence of num_timesteps values
\* _on_step updates the opponent exactly on the steps where num_timesteps -
\* _last_update >= update_freq and then sets _last_update to
\* num_timesteps; after every step num_timesteps - _last_update <
\* update_freq; and _on_step always returns True.
C28_UpdateScheduleAnyFreq ==
    [][(EnvStep /\ SelfPlaying(learner))
       => /\ OnStepAsClaimed
          /\ SinceUpdate(learner') < learner.callback._update_freq]_vars

\* C28, amended: the same with update_freq >= 1 for the bound on the
\* timesteps since the last update; with update_freq <= 0 every step
\* updates the opponent and num_timesteps - _last_update is 0 after it.
C28_UpdateSchedule ==
    [][(EnvStep /\ SelfPlaying(learner))
       => /\ OnStepAsClaimed
          /\ learner.callback._update_freq >= 1
             => SinceUpdate(learner') < learner.callback._update_freq
          /\ learner.callback._update_freq <= 0
             => learner'.updated /\ SinceUpdate(learner') = 0]_vars

\* the opponent has just been updated a second time at least, two or more
\* timesteps after the update before
C28_Witness ==
    /\ SelfPlaying(learner)
    /\ learner.phase = "learning"
    /\ learner.updated
    /\ learner.callback._update_freq = 2
    /\ learner.callback._last_update = learner.num_timesteps
    /\ learner.num_timesteps >= 4
    /\ learner.call.saved = 0

---------------------------------------------------------------------------
(* main.py: parse_args and main *)

\* the Namespace parse_args returns
Namespace(mode, tag, resume, vs_self, model, battles, no_train, opponent_model) ==
    [mode |-> mode, config |-> "config/config.yaml", tag |-> tag, resume |-> resume,
     vs_self |-> vs_self, model |-> model, battles |-> battles, no_train |-> no_train,
     opponent_model |-> opponent_model]

\* parse_args over the command lines: --mode is required, every other
\* option is given or left at its default
parse_args ==
    {Namespace(m, t, r, v, md, b, nt, om) :
        m \in {"self_play", "ladder"}, t \in {None, "v2"},
        r \in {None, "models/vs_heuristic/final_model"}, v \in BOOLEAN,
        md \in {None, "models/vs_self/self_play_model"}, b \in {1, 100},
        nt \in BOOLEAN, om \in {None, "models/vs_self/self_play_model"}}

\* the parameters of run_self_play and of run_ladder; all have defaults
RunSelfPlayParameters == {"config_path", "resume", "vs_self", "tag"}

RunLadderParameters == {"config_path", "model_path", "n_battles", "train"}

\* a call with keyword arguments only: a keyword that is no parameter of
\* the function raises TypeError before the body is entered
Unexpected(parameters, kwargs) == DOMAIN kwargs \ parameters

\* the keyword arguments main passes to run_self_play
SelfPlayKeywords(ns) ==
    [config_path |-> ns.config, resume |-> ns.resume, vs_self |-> ns.vs_self,
     tag |-> ns.tag, opponent_model_path |-> ns.opponent_model]

\* the keyword arguments main passes to run_ladder
LadderKeywords(ns) ==
    [config_path |-> ns.config, model_path |-> ns.model, n_battles |-> ns.battles,
     train |-> ~ns.no_train]

NoRun == [k \in {} |-> None]

\* the process after main: entered names the function whose body was
\* entered, raised the exception that ended main, run the self-play run
Process(ns, entered, raised, run) ==
    [phase |-> IF raised = None THEN "running" ELSE "raised", argv |-> ns,
     entered |-> entered, raised |-> raised, run |-> run]

\* main in self_play mode; update_freq, saved and exists are what
\* run_self_play would read from the config and the model directory
main_self_play(ns, update_freq, saved, exists) ==
    LET kwargs == SelfPlayKeywords(ns)
    IN  IF Unexpected(RunSelfPlayParameters, kwargs) # {}
        THEN Process(ns, None, "TypeError", NoRun)
        ELSE LET run == run_self_play(SelfPlayCall(kwargs.resume, kwargs.vs_self,
                                          kwargs.tag, update_freq, saved, exists))
             IN  Process(ns, "run_self_play", run.raised, run)

\* main in ladder mode
main_ladder(ns) ==
    IF Unexpected(RunLadderParameters, LadderKeywords(ns)) # {}
    THEN Process(ns, None, "TypeError", NoRun)
    ELSE Process(ns, "run_ladder", None, NoRun)

InitMain ==
    /\ \E ns \in parse_args : learner = [phase |-> "main", argv |-> ns]
    /\ game = <<>>
    /\ tracker = <<>>
    /\ logger = <<>>
    /\ battle = IdleBattle
    /\ mask = NoMask
    /\ orders = NoOrders
    /\ pc = "idle"
    /\ snapshot = IdleSnapshot
    /\ obs = <<>>
    /\ epc = "idle"
    /\ args = NoArgs
    /\ result = NoResult
    /\ fpc = "idle"
    /\ calls = <<>>

MainSelfPlay ==
    /\ learner.phase = "main"
    /\ learner.argv.mode = "self_play"
    /\ \E f \in 0 .. MaxFreq, s \in {0, MaxSaved}, e \in BOOLEAN :
          learner' = main_self_play(learner.argv, f, s, e)
    /\ UNCHANGED <<estimator, game, tracker, logger>>

MainLadder ==
    /\ learner.phase = "main"
    /\ learner.argv.mode = "ladder"
    /\ learner' = main_ladder(learner.argv)
    /\ UNCHANGED <<estimator, game, tracker, logger>>

NextMain == MainSelfPlay \/ MainLadder

SpecMain == InitMain /\ [][NextMain]_vars

---------------------------------------------------------------------------
(* Claims about main *)

\* main has run in self_play mode
SelfPlayMain == learner.phase # "main" /\ learner.argv.mode = "self_play"

\* C25: when main is run in self_play mode, run_self_play is entered and
\* the training starts, whatever the other options are; and with
\* --opponent-model and --vs-self the opponent is that fixed model, which
\* is not the agent that is trained.
C25_SelfPlayModeTrains ==
    SelfPlayMain =>
        /\ learner.entered = "run_self_play"
        /\ learner.raised = None
        /\ learner.run.phase = "learning"
        /\ (learner.argv.opponent_model # None /\ learner.argv.vs_self)
           => /\ learner.run.opponent.class = "SelfPlayOpponent"
              /\ learner.run.opponent._model = learner.argv.opponent_model

\* main never gets into run_self_play: every self_play command line ends
\* with the TypeError of the call
MainAlwaysRaises ==
    SelfPlayMain => learner.raised = "TypeError" /\ learner.entered = None

\* run_ladder is entered from every ladder command line
LadderEntered ==
    (learner.phase # "main" /\ learner.argv.mode = "ladder")
        => learner.entered = "run_ladder" /\ learner.raised = None

---------------------------------------------------------------------------
(* Claims about the encoder layout and the switch indices *)

\* list(battle.team.values())[k], the roster member switch action k selects
SwitchTarget(team, k) == IF k < Len(team) THEN team[k + 1] ELSE NoPokemon

\* C26: the feature layout and the action index mapping agree on roster
\* slots: for every k in 0..4, own-reserve block k (offsets 204 + 20k ..)
\* and switch-analysis block k (offsets 174 + 6k ..) of the observation
\* describe the roster member at absolute position k, the one switch action
\* k selects, whichever member is active.
C26_ReserveBlocksFollowSwitchIndices ==
    Encoded =>
        \A k \in 0 .. 4 :
            /\ Section(obs, 204 + 20 * k, 223 + 20 * k) =
                  _encode_reserve_pokemon(SwitchTarget(snapshot.team, k))
            /\ OppActive.name # None =>
                  Section(obs, 174 + 6 * k, 179 + 6 * k) =
                      SwitchEntries(SwitchTarget(snapshot.team, k), OppActive, snapshot)

\* what the blocks do describe: the k-th member of the roster without its
\* active member
ReserveBlocksFollowNonActive ==
    Encoded =>
        \A k \in 0 .. 4 :
            /\ Section(obs, 204 + 20 * k, 223 + 20 * k) =
                  _encode_reserve_pokemon(OwnReserve(k))
            /\ OppActive.name # None =>
                  Section(obs, 174 + 6 * k, 179 + 6 * k) =
                      SwitchEntries(OwnReserve(k), OppActive, snapshot)

\* the two agree while no member of the roster is active
ReserveBlocksAgreeWithoutActive ==
    (Encoded /\ OwnActive.name = None) =>
        \A k \in 0 .. 4 :
            Section(obs, 204 + 20 * k, 223 + 20 * k) =
                _encode_reserve_pokemon(SwitchTarget(snapshot.team, k))

---------------------------------------------------------------------------
(* Claims about the single forced move *)

\* available_moves is exactly one move whose id is struggle or recharge
OnlyStruggleOrRecharge(b) ==
    /\ Len(b.available_moves) = 1
    /\ b.available_moves[1] = "struggle" \/ b.available_moves[1] = "recharge"

\* C27: on a non-forced turn where available_moves is exactly one move
\* whose id is struggle or recharge, index 6 is the only True index among
\* 6..25, whatever can_mega_evolve, can_z_move, can_dynamax and can_tera
\* are, and the switch indices 0..5 are True exactly for the roster
\* positions whose member is among available_switches.
C27_SingleForcedMoveMask ==
    (Masked /\ ~ForcedTurn(battle) /\ OnlyStruggleOrRecharge(battle)) =>
        /\ \A i \in 6 .. 25 : mask[i] <=> i = 6
        /\ \A i \in 0 .. 5 :
              mask[i] <=> (/\ i + 1 <= Len(battle.team)
                           /\ \E k \in DOMAIN battle.available_switches :
                                 battle.available_switches[k] = battle.team[i + 1])

\* the single move is struggle, every special mechanic is allowed, the
\* active Pokemon knows two moves or more, one roster member can be switched
\* in and another cannot
C27_Witness ==
    /\ Masked
    /\ ~ForcedTurn(battle)
    /\ battle.available_moves = <<"struggle">>
    /\ battle.can_mega_evolve /\ battle.can_z_move
    /\ battle.can_dynamax /\ battle.can_tera
    /\ Len(battle.moves) >= 2
    /\ battle.available_z_moves # <<>>
    /\ mask[6] /\ ~mask[7] /\ ~mask[10] /\ ~mask[14] /\ ~mask[18] /\ ~mask[22]
    /\ \E i, j \in 0 .. 5 : mask[i] /\ ~mask[j] /\ j + 1 <= Len(battle.team)

====
